---- MODULE Spec2Model ----
(***************************************************************************)
(* A model of substrate-manager's manifest and source transformation       *)
(* engine: the scaffolding pipeline (new_chain / new_contract,             *)
(* generate_node_template and its dependency rewriter), the thin tool      *)
(* wrappers (run / build / test) and the pallet injection (add_pallet).    *)
(*                                                                         *)
(* Paths are sequences of components rooted at the filesystem root <<>>.   *)
(* Texts are strings, read as sequences of characters (Len, SubSeq, \o).    *)
(***************************************************************************)
EXTENDS Integers, Sequences, FiniteSets, TLC

\* ------------------------------------------------------------------ bounds

\* Longest dependency table drawn for the node manifest of a template.
MaxDeps == 2

\* ------------------------------------------------------- generic helpers

Last(s) == s[Len(s)]

Front(s) == SubSeq(s, 1, Len(s) - 1)

Range(s) == { s[i] : i \in 1..Len(s) }

IsPrefix(p, s) == Len(p) <= Len(s) /\ SubSeq(s, 1, Len(p)) = p

RECURSIVE SelectSeqBy(_, _)
\* s without the elements outside the set keep, order preserved
SelectSeqBy(s, keep) ==
    IF s = <<>> THEN <<>>
    ELSE IF Head(s) \in keep THEN <<Head(s)>> \o SelectSeqBy(Tail(s), keep)
         ELSE SelectSeqBy(Tail(s), keep)

\* F applied to the value of e, e being evaluated once
Bind(e, F(_)) == CHOOSE r \in { F(x) : x \in { e } } : TRUE

SeqsUpTo(S, n) == UNION { [1..k -> S] : k \in 0..n }

\* ---------------------------------------------------------------- strings

\* the i-th character of s
Char(s, i) == SubSeq(s, i, i)

StartsAt(s, i, sub) ==
    i >= 1 /\ i + Len(sub) - 1 <= Len(s) /\ SubSeq(s, i, i + Len(sub) - 1) = sub

SetMin(S) == CHOOSE m \in S : \A n \in S : m <= n

SetMax(S) == CHOOSE m \in S : \A n \in S : m >= n

\* str::find from position from: the first index where sub starts, 0 if none
Find(s, sub, from) ==
    LET at == { i \in from..(Len(s) - Len(sub) + 1) : StartsAt(s, i, sub) }
    IN  IF at = {} THEN 0 ELSE SetMin(at)

\* str::contains
Contains(s, sub) == Find(s, sub, 1) # 0

\* str::replacen(from, to, 1)
ReplaceFirst(s, from, to) ==
    Bind(Find(s, from, 1), LAMBDA i :
         IF i = 0 THEN s
         ELSE SubSeq(s, 1, i - 1) \o to \o SubSeq(s, i + Len(from), Len(s)))

RECURSIVE ReplaceFrom(_, _, _, _)
\* str::replace from position k on
ReplaceFrom(s, from, to, k) ==
    Bind(Find(s, from, k), LAMBDA i :
         IF i = 0 \/ from = "" THEN SubSeq(s, k, Len(s))
         ELSE SubSeq(s, k, i - 1) \o to \o ReplaceFrom(s, from, to, i + Len(from)))

\* str::replace: every non-overlapping occurrence, left to right
ReplaceAll(s, from, to) == ReplaceFrom(s, from, to, 1)

\* String::insert_str(at, ins), at a 0-based byte offset
InsertStr(s, at, ins) == SubSeq(s, 1, at) \o ins \o SubSeq(s, at + 1, Len(s))

RECURSIVE LinesFrom(_, _)
\* the lines of s from position k on
LinesFrom(s, k) ==
    IF k > Len(s) THEN <<>>
    ELSE Bind(Find(s, "\n", k), LAMBDA i :
              IF i = 0 THEN << SubSeq(s, k, Len(s)) >>
              ELSE << SubSeq(s, k, i - 1) >> \o LinesFrom(s, i + 1))

\* str::lines: the text cut at "\n"; a final newline opens no further line
Lines(s) == LinesFrom(s, 1)

LowerCase == "abcdefghijklmnopqrstuvwxyz"

UpperCase == "ABCDEFGHIJKLMNOPQRSTUVWXYZ"

Digits == "0123456789"

IsUpper(c) == Contains(UpperCase, c)

IsAlnum(c) == Contains(LowerCase, c) \/ Contains(UpperCase, c) \/ Contains(Digits, c)

ToLower(c) == IF IsUpper(c) THEN Char(LowerCase, Find(UpperCase, c, 1)) ELSE c

ToUpper(c) == IF Contains(LowerCase, c) THEN Char(UpperCase, Find(LowerCase, c, 1)) ELSE c

RECURSIVE SnakeFrom(_, _, _, _)
\* the loop of to_snake_case from character i on, with its buffer and
\* prev_was_delimiter
SnakeFrom(s, i, buffer, prev) ==
    IF i > Len(s) THEN buffer
    ELSE LET c == Char(s, i)
         IN  IF IsAlnum(c)
             THEN Bind((IF IsUpper(c) /\ ~prev /\ buffer # ""
                        THEN buffer \o "_" ELSE buffer) \o ToLower(c),
                       LAMBDA b : SnakeFrom(s, i + 1, b, FALSE))
             ELSE IF c = " " \/ c = "-"
             THEN Bind(IF ~prev /\ buffer # "" THEN buffer \o "_" ELSE buffer,
                       LAMBDA b : SnakeFrom(s, i + 1, b, TRUE))
             ELSE SnakeFrom(s, i + 1, buffer, prev)

to_snake_case(s) == SnakeFrom(s, 1, "", TRUE)

RECURSIVE PascalFrom(_, _, _, _)
PascalFrom(s, i, chars, uppercase_next) ==
    IF i > Len(s) THEN chars
    ELSE LET ch == Char(s, i)
         IN  IF i = 1 THEN PascalFrom(s, i + 1, chars \o ToUpper(ch), uppercase_next)
             ELSE IF ch = "_" \/ ch = "-" THEN PascalFrom(s, i + 1, chars, TRUE)
             ELSE IF uppercase_next
                  THEN PascalFrom(s, i + 1, chars \o ToUpper(ch), FALSE)
                  ELSE PascalFrom(s, i + 1, chars \o ch, uppercase_next)

to_pascal_case(s) == PascalFrom(s, 1, "", FALSE)

\* ------------------------------------------------------------ filesystem

\* opts.path: the absolute destination directory /demo
Dest == <<"demo">>

NoPath == <<"\\0">>

PathJoin(base, rel) == base \o rel

PathParent(p) == IF p = <<>> THEN <<>> ELSE Front(p)

RECURSIVE Resolve(_, _, _)
\* The kernel's path walk from directory cur along the components rest:
\* the path reached, or NoPath when a component is missing.
Resolve(fs, cur, rest) ==
    IF rest = <<>> THEN cur
    ELSE IF cur \notin DOMAIN fs \/ fs[cur] # "dir" THEN NoPath
    ELSE IF Head(rest) = ".." THEN Resolve(fs, PathParent(cur), Tail(rest))
    ELSE IF Head(rest) = "." THEN Resolve(fs, cur, Tail(rest))
    ELSE IF (cur \o <<Head(rest)>>) \in DOMAIN fs
         THEN Resolve(fs, cur \o <<Head(rest)>>, Tail(rest))
         ELSE NoPath

\* Path::exists
PathExists(fs, p) == Resolve(fs, <<>>, p) # NoPath

IsFile(fs, p) == p \in DOMAIN fs /\ fs[p] = "file"

IsDir(fs, p) == p \in DOMAIN fs /\ fs[p] = "dir"

\* the entries directly inside directory d
DirEntries(fs, d) == { p \in DOMAIN fs : Len(p) = Len(d) + 1 /\ IsPrefix(d, p) }

\* d and everything below it
Subtree(fs, d) == { p \in DOMAIN fs : IsPrefix(d, p) }

FsRemove(fs, gone) == [ p \in (DOMAIN fs) \ gone |-> fs[p] ]

FsAdd(fs, more) == [ p \in (DOMAIN fs) \cup (DOMAIN more) |->
                       IF p \in DOMAIN more THEN more[p] ELSE fs[p] ]

\* fs::rename(from, to) of a file or a directory with all it holds
FsRename(fs, from, to) ==
    LET moved == Subtree(fs, from)
        kept  == (DOMAIN fs) \ (moved \cup Subtree(fs, to))
        dst(p) == to \o SubSeq(p, Len(from) + 1, Len(p))
    IN  [ q \in kept \cup { dst(p) : p \in moved } |->
            IF q \in kept THEN fs[q]
            ELSE fs[CHOOSE p \in moved : dst(p) = q] ]

\* File names in byte order, for the order in which glob yields paths.
NameOrder == << ".git", "Cargo.lock", "Cargo.toml", "README.md", "Substrate.toml",
                "bin", "demo", "lib.rs", "main.rs", "node", "node-template",
                "pallets", "runtime", "rustfmt.toml", "src", "template" >>

NameRank(n) == CHOOSE i \in 1..Len(NameOrder) : NameOrder[i] = n

RECURSIVE PathLess(_, _)
PathLess(p, q) ==
    IF p = <<>> THEN q # <<>>
    ELSE IF q = <<>> THEN FALSE
    ELSE IF Head(p) = Head(q) THEN PathLess(Tail(p), Tail(q))
    ELSE NameRank(Head(p)) < NameRank(Head(q))

RECURSIVE SortPaths(_)
SortPaths(S) ==
    IF S = {} THEN <<>>
    ELSE LET m == CHOOSE p \in S : \A q \in S \ {p} : PathLess(p, q)
         IN  <<m>> \o SortPaths(S \ {m})

\* glob("<path>/**/Cargo.toml") resp. glob("<path>/**/*.rs")
GlobCargoTomls(fs, path) ==
    SortPaths({ p \in DOMAIN fs : IsPrefix(path, p) /\ Len(p) > Len(path)
                                  /\ Last(p) = "Cargo.toml" })

\* ------------------------------------------------------ manifest documents

DepTables == << "dependencies", "build-dependencies", "dev-dependencies" >>

\* A dependency declaration `name = value`. form is "inline" for an inline
\* table { k = v, .. }, "table" for a [dependencies.name] table and "str" for
\* a bare version string; kv holds the key/value pairs in document order.
Decl(name, form, kv) == [ name |-> name, form |-> form, kv |-> kv ]

NoWorkspace == [ present |-> FALSE, dependencies |-> <<>>,
                 hasMembers |-> FALSE, members |-> <<>> ]

\* Document::new(): what an empty file parses to
EmptyDoc == [ type     |-> <<>>,
              package  |-> <<>>,
              bin      |-> <<>>,
              tables   |-> [ t \in Range(DepTables) |-> <<>> ],
              features |-> <<>>,
              workspace |-> NoWorkspace,
              profile  |-> <<>> ]

KvHas(kv, key) == \E i \in 1..Len(kv) : kv[i][1] = key

KvGet(kv, key) == kv[CHOOSE i \in 1..Len(kv) : kv[i][1] = key][2]

\* InlineTable::remove
KvRemove(kv, key) == SelectSeq(kv, LAMBDA e : e[1] # key)

\* InlineTable::insert: replaces the value in place, or appends the pair
KvInsert(kv, key, val) ==
    IF KvHas(kv, key)
    THEN [ i \in 1..Len(kv) |-> IF kv[i][1] = key THEN <<key, val>> ELSE kv[i] ]
    ELSE Append(kv, <<key, val>>)

\* ------------------------------------------------- dependency graph rewriter

\* A dependency table (inline table, [table] or string) entry seen through
\* Item::as_inline_table_mut: only an inline table is Some.
AsInlineTable(decl) == decl.form = "inline"

\* The body of the loop of process_and_replace_dependencies for one entry.
ProcessDecl(decl, remote, commit, dir, fs) ==
    IF AsInlineTable(decl) /\ KvHas(decl.kv, "path")
       /\ ~PathExists(fs, PathJoin(dir, KvGet(decl.kv, "path")))
    THEN [ decl EXCEPT !.kv =
             KvInsert(KvInsert(KvRemove(decl.kv, "path"), "git", <<remote>>),
                      "rev", <<commit>>) ]
    ELSE decl

process_and_replace_dependencies(dependencies, remote, commit, dir, fs) ==
    [ i \in 1..Len(dependencies) |->
        ProcessDecl(dependencies[i], remote, commit, dir, fs) ]

\* cargo_toml_path is the manifest's path; its directory is what `pop` leaves.
replace_path_dependencies_with_git(cargo_toml_path, remote, commit, doc, fs) ==
    LET dir == PathParent(cargo_toml_path)
    IN  [ doc EXCEPT
            !.tables = [ t \in DOMAIN doc.tables |->
                process_and_replace_dependencies(doc.tables[t], remote, commit, dir, fs) ],
            !.workspace.dependencies =
                IF doc.workspace.present
                THEN process_and_replace_dependencies(
                         doc.workspace.dependencies, remote, commit, dir, fs)
                ELSE doc.workspace.dependencies ]

\* a faulty variant: the manifest path itself, .parent() forgotten
MemberOfNoParent(p, folder) == SubSeq(p, Len(folder) + 1, Len(p))

\* p.strip_prefix(folder).parent(): the member's directory relative to the
\* root (rendered by display() as its components joined by "/").
MemberOf(p, folder) == PathParent(SubSeq(p, Len(folder) + 1, Len(p)))

\* a faulty variant: the profile the specification words describe
ReleaseProfileAbort == << <<"release", << <<"panic", <<"abort">> >> >> >> >>

ReleaseProfile == << <<"release", << <<"panic", <<"unwind">> >> >> >> >>

\* a faulty variant: the members pushed onto the array the manifest already has
update_top_level_cargo_toml_extend(doc, workspace_members, folder) ==
    [ doc EXCEPT
        !.profile = ReleaseProfile,
        !.workspace = [ @ EXCEPT !.present = TRUE,
                                 !.hasMembers = TRUE,
                                 !.members = @ \o [ i \in 1..Len(workspace_members) |->
                                                 MemberOf(workspace_members[i], folder) ] ] ]

update_top_level_cargo_toml(doc, workspace_members, folder) ==
    [ doc EXCEPT
        !.profile = ReleaseProfile,
        !.workspace = [ @ EXCEPT !.present = TRUE,
                                 !.hasMembers = TRUE,
                                 !.members = [ i \in 1..Len(workspace_members) |->
                                                 MemberOf(workspace_members[i], folder) ] ] ]

\* The closure generate_node_template applies to each manifest t: the
\* document written back to t.
ProcessManifest(t, doc, cargo_tomls, remote, commit, path, fs) ==
    LET top == PathJoin(path, <<"Cargo.toml">>)
        d1  == replace_path_dependencies_with_git(t, remote, commit, doc, fs)
    IN  IF top = t
        THEN update_top_level_cargo_toml(
                 d1, SelectSeq(cargo_tomls, LAMBDA p : p # top), path)
        ELSE d1

\* ------------------------------------------------------- template repositories

\* TemplateConfig.remote and the commit the remote's branch points at
Remote == "https://example/tmpl.git"

OriginHead == "c0ffee"

\* a string leaf of a document
Str(x) == <<x>>

PathDep(name, form, path) == Decl(name, form, << <<"path", path>> >>)

\* The declarations a template's node manifest is drawn from: paths that
\* leave the template directory (missing once it is materialized), a path
\* inside it, a version string, a [dependencies.x] table.
DeclPool ==
    { PathDep("frame-system", "inline", <<"..", "..", "frame", "system">>),
      Decl("pallet-template", "inline",
           << <<"version", Str("4.0")>>, <<"path", <<"..", "pallets", "template">>>> >>),
      Decl("serde", "str", <<>>),
      PathDep("sp-io", "table", <<"..", "..", "primitives", "io">>),
      Decl("sp-core", "inline",
           << <<"path", <<"..", "..", "primitives", "core">>>>,
              <<"default-features", Str("false")>> >>) }

UniqueNames(s) == \A i, j \in 1..Len(s) : s[i].name = s[j].name => i = j

NodeDepChoices == { s \in SeqsUpTo(DeclPool, MaxDeps) : UniqueNames(s) }

RuntimeName == "node-template-runtime"

NodeName == "node-template"

TablesOf(deps, build, dev) ==
    [ t \in Range(DepTables) |->
        IF t = "dependencies" THEN deps
        ELSE IF t = "build-dependencies" THEN build ELSE dev ]

NodeDoc(deps) ==
    [ EmptyDoc EXCEPT
        !.package = Str(NodeName),
        !.bin = << NodeName >>,
        !.tables = TablesOf(
            << PathDep(RuntimeName, "inline", <<"..", "runtime">>) >> \o deps,
            << Decl("substrate-build-script-utils", "inline",
                    << <<"version", Str("3.0")>> >>) >>,
            <<>>),
        !.features = << <<"default", <<>> >>,
                        <<"runtime-benchmarks",
                          << "node-template-runtime/runtime-benchmarks",
                             "frame-system/runtime-benchmarks",
                             "node-template-runtime-api/runtime-benchmarks" >> >> >> ]

RuntimeDoc ==
    [ EmptyDoc EXCEPT
        !.package = Str(RuntimeName),
        !.tables = TablesOf(
            << PathDep("frame-support", "inline", <<"..", "..", "frame", "support">>),
               PathDep("pallet-template", "inline", <<"..", "pallets", "template">>) >>,
            << PathDep("substrate-wasm-builder", "inline",
                       <<"..", "..", "utils", "wasm-builder">>) >>,
            <<>>),
        !.features = << <<"default", <<"std">> >>,
                        <<"std", <<"frame-support/std", "pallet-template/std">> >> >> ]

PalletDoc ==
    [ EmptyDoc EXCEPT
        !.package = Str("pallet-template"),
        !.tables = TablesOf(
            << Decl("codec", "inline", << <<"version", Str("3.6")>> >>) >>,
            <<>>,
            << PathDep("sp-core", "inline", <<"..", "..", "..", "primitives", "core">>) >>) ]

\* The root manifest a template directory carries, when it carries one.
TemplateRootDoc ==
    [ EmptyDoc EXCEPT
        !.workspace = [ present |-> TRUE,
                        dependencies |->
                          << PathDep(RuntimeName, "inline", <<".", "runtime">>),
                             PathDep("sp-runtime", "inline",
                                     <<"..", "primitives", "runtime">>) >>,
                        hasMembers |-> TRUE,
                        members |-> << <<"node">>, <<"runtime">> >> ],
        !.profile = << <<"release", << <<"panic", Str("unwind")>> >> >>,
                       <<"production", << <<"lto", Str("fat")>> >> >> >> ]

\* The manifest at the top of the remote repository, when it has one.
RepoRootDoc(template_path) ==
    [ EmptyDoc EXCEPT
        !.workspace = [ present |-> TRUE,
                        dependencies |->
                          << PathDep(RuntimeName, "inline",
                                     template_path \o <<"runtime">>),
                             Decl("log", "inline", << <<"version", Str("0.4")>> >>) >>,
                        hasMembers |-> TRUE,
                        members |-> << template_path \o <<"node">>,
                                       template_path \o <<"runtime">> >> ],
        !.profile = << <<"production", << <<"lto", Str("fat")>> >> >> >> ]

TemplatePaths == { <<"node-template">>, <<"bin", "node-template">> }

RepoTops == { {"README.md", "rustfmt.toml"}, {"README.md", "Cargo.toml", "Cargo.lock"} }

Repos == [ template_path : TemplatePaths, top : RepoTops,
           hasRoot : BOOLEAN, nodeDeps : NodeDepChoices ]

DefaultRepo == [ template_path |-> <<"node-template">>,
                 top |-> {"README.md", "rustfmt.toml"},
                 hasRoot |-> TRUE, nodeDeps |-> <<>> ]

\* The files of the template directory, relative to it.
TemplateFiles(repo) ==
    LET dirs  == { <<"node">>, <<"node", "src">>, <<"runtime">>, <<"runtime", "src">>,
                   <<"pallets">>, <<"pallets", "template">> }
        files == { <<"node", "Cargo.toml">>, <<"node", "src", "main.rs">>,
                   <<"runtime", "Cargo.toml">>, <<"runtime", "src", "lib.rs">>,
                   <<"pallets", "template", "Cargo.toml">> }
                 \cup (IF repo.hasRoot THEN { <<"Cargo.toml">> } ELSE {})
    IN  [ p \in dirs \cup files |-> IF p \in dirs THEN "dir" ELSE "file" ]

TemplateDocs(repo) ==
    LET ps == { <<"node", "Cargo.toml">>, <<"runtime", "Cargo.toml">>,
                <<"pallets", "template", "Cargo.toml">> }
              \cup (IF repo.hasRoot THEN { <<"Cargo.toml">> } ELSE {})
    IN  [ p \in ps |->
            IF p = <<"Cargo.toml">> THEN TemplateRootDoc
            ELSE IF p[1] = "node" THEN NodeDoc(repo.nodeDeps)
            ELSE IF p[1] = "runtime" THEN RuntimeDoc ELSE PalletDoc ]

\* the Rust sources of the template directory
TemplateSources ==
    [ p \in { <<"node", "src", "main.rs">>, <<"runtime", "src", "lib.rs">> } |->
        IF p[1] = "node"
        THEN "use node_template_runtime::Block;\nfn main() { node_template::run() }\n"
        ELSE "pub const ID: &str = \"node_template_runtime\";\n" ]

\* f with every key moved below directory d
Under(d, f) == [ q \in { d \o p : p \in DOMAIN f } |->
                   f[SubSeq(q, Len(d) + 1, Len(q))] ]

\* the directories leading to d (d included), below base
DirsTo(base, d) ==
    [ q \in { base \o SubSeq(d, 1, k) : k \in 1..Len(d) } |-> "dir" ]

\* ------------------------------------------------------------------ state

VARIABLES
    op,           \* the operation invoked: new_chain, new_contract, run, build, test,
                  \* add_pallet
    pc,           \* the position inside it
    result,       \* "none" while running, then "ok", "err" (Err returned) or "panic"
    template,     \* opts.template
    repo,         \* the remote repository the template names
    fs,           \* the filesystem: path -> "dir" | "file"
    docs,         \* the contents of the manifest files: path -> document
    srcs,         \* the contents of the Rust source files: path -> text
    head,         \* what `git rev-parse HEAD` prints in the destination
    ran,          \* the external commands spawned so far, in order
    failed,       \* the commands among them that exited with a nonzero status
    commit_id,    \* generate_node_template's commit_id
    cargo_tomls,  \* generate_node_template's cargo_tomls
    idx,          \* the position of its for_each over cargo_tomls
    fs0,          \* history: the filesystem when the operation began
    docs0,        \* history: the manifests as the rewriter (or add_pallet) found them
    crate_spec,   \* add_pallet: opts.crate_spec
    returned,     \* add_pallet_to_runtime's Ok value: <<>> for None, <<n>> for Some(n)
    calls,        \* add_pallet: the invocations that have returned
    srcs0,        \* history: the sources when the current add_pallet began
    injection,    \* history: what add_pallet_to_runtime returned in the current
                  \* add_pallet: "none" (not called), "ok" or "err"
    injected,     \* history: how many add_pallet_to_runtime calls returned Ok
    content,      \* input_chain: the parsed items of node/src/command.rs
    item_idx,     \* extract_match_fields: the position of its loop over the items
    extracted_fields,  \* extract_match_fields: its extracted_fields
    manifest_file,  \* Manifest::write: the file at self.path, [exists, data]
    manifest_file0, \* history: that file before write_document
    bytes,          \* Manifest::write: the bytes to write
    cursor,         \* Manifest::write: the position of the open file
    call_args,      \* util: the arguments of the function called
    field_item,     \* from_manifest_or_default: what find_field_recursive
                    \* returned, <<>> for None, <<item>> for Some(item)
    ret             \* util: what the function returned

vars == << op, pc, result, template, repo, fs, docs, srcs, head, ran, failed,
           commit_id, cargo_tomls, idx, fs0, docs0,
           crate_spec, returned, calls, srcs0, injection, injected,
           content, item_idx, extracted_fields,
           manifest_file, manifest_file0, bytes, cursor,
           call_args, field_item, ret >>

\* what only the functions of util touch
util_vars == << call_args, field_item, ret >>

\* no function of util has been called
NoCall == call_args = <<>> /\ field_item = <<>> /\ ret = ""

\* what only Manifest::write touches
write_vars == << manifest_file, manifest_file0, bytes, cursor >>

\* a file that is not there
NoFile == [ exists |-> FALSE, data |-> "" ]

\* what only the chain-specification extractor and Manifest::write touch
ext_vars == << content, item_idx, extracted_fields, write_vars, util_vars >>

\* what the scaffolding pipeline and the tool wrappers never touch
add_vars == << crate_spec, returned, calls, srcs0, injection, injected, ext_vars >>

gen_vars == << commit_id, cargo_tomls, idx, docs0 >>

Ops == { "new_chain", "new_contract", "run", "build", "test" }

\* Template: the chain templates behave alike, so one stands for the four.
Templates == { "Substrate", "CargoContract", "Custom" }

\* how a spawned command ends: exit status 0, a nonzero exit status, or
\* io::Error from spawning it
Outcomes == { "ok", "nonzero", "spawn_err" }

RootOnly == [ p \in { <<>> } |-> "dir" ]

\* a destination that is already there
TakenFs == FsAdd(RootOnly, [ p \in { Dest, Dest \o <<"README.md">> } |->
                               IF p = Dest THEN "dir" ELSE "file" ])

NoDocs == [ p \in {} |-> EmptyDoc ]

NoSrcs == [ p \in {} |-> "" ]

Init ==
    /\ op \in Ops
    /\ pc = "start"
    /\ result = "none"
    /\ IF op = "new_chain"
       THEN template \in Templates /\ repo \in Repos
       ELSE template = "CargoContract" /\ repo = DefaultRepo
    /\ fs \in (IF op \in {"new_chain", "new_contract"}
               THEN { RootOnly, TakenFs } ELSE { TakenFs })
    /\ docs = NoDocs
    /\ srcs = NoSrcs
    /\ head = "none"
    /\ ran = <<>>
    /\ failed = {}
    /\ commit_id = ""
    /\ cargo_tomls = <<>>
    /\ idx = 0
    /\ fs0 = fs
    /\ docs0 = NoDocs
    /\ crate_spec = ""
    /\ returned = <<>>
    /\ calls = 0
    /\ srcs0 = NoSrcs
    /\ injection = "none"
    /\ injected = 0
    /\ content = <<>>
    /\ item_idx = 0
    /\ extracted_fields = <<>>
    /\ manifest_file = NoFile /\ manifest_file0 = NoFile
    /\ bytes = "" /\ cursor = 0
    /\ NoCall

\* the operation ends with r
Finish(r) == pc' = "done" /\ result' = r

\* ------------------------------------------------ new_chain / new_contract

\* a faulty variant: the guard left out
DestinationNeverTaken(files, path) == FALSE

\* path.exists() at the top of new_chain and new_contract
DestinationTaken(files, path) == PathExists(files, path)

NewCheckExists ==
    /\ pc = "start" /\ op \in {"new_chain", "new_contract"}
    /\ IF DestinationTaken(fs, Dest)
       THEN Finish("err")
       ELSE pc' = "validate" /\ result' = result
    /\ UNCHANGED << op, template, repo, fs, docs, srcs, head, ran, failed, gen_vars, fs0, add_vars >>

\* validate_path, get_name, validate_name: the name is the directory name
\* "demo"; whether it is an acceptable package name is an input.
NewValidate ==
    /\ pc = "validate"
    /\ \E valid \in BOOLEAN :
         IF valid THEN pc' = "rust" /\ result' = result ELSE Finish("err")
    /\ UNCHANGED << op, template, repo, fs, docs, srcs, head, ran, failed, gen_vars, fs0, add_vars >>

\* validate_rust_installation: `rustup show`, then four more rustup commands
\* when the nightly toolchain is missing; `?` passes on a spawn error only.
ValidateRust ==
    /\ pc = "rust"
    /\ \E o \in {"ok", "spawn_err"}, installed \in BOOLEAN :
         /\ ran' = ran \o (IF o = "ok" /\ ~installed
                           THEN << "rustup show", "rustup default", "rustup update",
                                   "rustup update nightly", "rustup target add" >>
                           ELSE << "rustup show" >>)
         /\ IF o = "spawn_err" THEN Finish("err")
            ELSE /\ pc' = (IF op = "new_chain" THEN "load_cfg" ELSE "cc_install")
                 /\ result' = result
    /\ UNCHANGED << op, template, repo, fs, docs, srcs, head, failed, gen_vars, fs0, add_vars >>

\* ------------------------------------------------- generate_node_template

\* load_template_config: the names with an embedded configuration
ValidTemplate(t) == t \in { "Substrate", "Cumulus", "Frontier", "Canvas" }

GenLoadConfig ==
    /\ pc = "load_cfg"
    /\ IF ValidTemplate(template)
       THEN pc' = "clone" /\ result' = result
       ELSE Finish("err")
    /\ UNCHANGED << op, template, repo, fs, docs, srcs, head, ran, failed, gen_vars, fs0, add_vars >>

\* what `git clone --sparse` checks out: the repository's top-level files
CloneTree(r) ==
    [ p \in { Dest, Dest \o <<".git">> } \cup { Dest \o <<f>> : f \in r.top } |->
        IF Len(p) = Len(Dest) + 1 /\ Last(p) # ".git" THEN "file" ELSE "dir" ]

CloneDocs(r) ==
    [ p \in { Dest \o <<f>> : f \in r.top \cap {"Cargo.toml"} } |->
        RepoRootDoc(r.template_path) ]

\* What a spawned command's outcome o does to the operation: `.status()?`
\* returns Err for a spawn error and nothing else.
StatusQuestionMark(o, next) ==
    IF o = "spawn_err" THEN Finish("err") ELSE pc' = next /\ result' = result

NoteExit(cmd, o) ==
    /\ ran' = Append(ran, cmd)
    /\ failed' = IF o = "nonzero" THEN failed \cup {cmd} ELSE failed

GenClone ==
    /\ pc = "clone"
    /\ \E o \in Outcomes :
         /\ o = "ok" => ~PathExists(fs, Dest)
         /\ NoteExit("git clone", o)
         /\ StatusQuestionMark(o, "commit_id")
         /\ IF o = "ok"
            THEN /\ fs' = FsAdd(fs, CloneTree(repo))
                 /\ docs' = FsAdd(docs, CloneDocs(repo))
                 /\ head' = OriginHead
            ELSE UNCHANGED << fs, docs, head >>
    /\ UNCHANGED << op, template, repo, srcs, gen_vars, fs0, add_vars >>

\* get_git_commit_id: `git rev-parse HEAD` run inside the destination;
\* .expect() panics when the command cannot be spawned there.
\* a faulty variant: what it prints in the re-initialized repository
RevParseNoCommit(h) == ""

\* the trimmed output of `git rev-parse HEAD` when HEAD is h
RevParseHead(h) == IF h = "none" THEN "" ELSE h

GenCommitId ==
    /\ pc = "commit_id"
    /\ IF IsDir(fs, Dest)
       THEN /\ ran' = Append(ran, "git rev-parse")
            /\ commit_id' = RevParseHead(head)
            /\ pc' = "sparse" /\ result' = result
       ELSE /\ Finish("panic")
            /\ UNCHANGED << ran, commit_id >>
    /\ UNCHANGED << op, template, repo, fs, docs, srcs, head, failed,
                    cargo_tomls, idx, docs0, fs0, add_vars >>

GenSparse ==
    /\ pc = "sparse"
    /\ \E o \in Outcomes :
         /\ o = "ok" => IsDir(fs, Dest \o <<".git">>)
         /\ NoteExit("git sparse-checkout", o)
         /\ StatusQuestionMark(o, "rm_git")
         /\ IF o = "ok"
            THEN LET local == Dest \o repo.template_path
                 IN  /\ fs' = FsAdd(FsAdd(fs, DirsTo(Dest, repo.template_path)),
                                    Under(local, TemplateFiles(repo)))
                     /\ docs' = FsAdd(docs, Under(local, TemplateDocs(repo)))
                     /\ srcs' = FsAdd(srcs, Under(local, TemplateSources))
            ELSE UNCHANGED << fs, docs, srcs >>
    /\ UNCHANGED << op, template, repo, head, gen_vars, fs0, add_vars >>

\* fs::remove_dir_all(path.join(".git"))?
GenRemoveGit ==
    /\ pc = "rm_git"
    /\ IF IsDir(fs, Dest \o <<".git">>)
       THEN /\ fs' = FsRemove(fs, Subtree(fs, Dest \o <<".git">>))
            /\ head' = "none"
            /\ pc' = "git_init" /\ result' = result
       ELSE /\ Finish("err")
            /\ UNCHANGED << fs, head >>
    /\ UNCHANGED << op, template, repo, docs, srcs, ran, failed, gen_vars, fs0, add_vars >>

GenGitInit ==
    /\ pc = "git_init"
    /\ \E o \in Outcomes :
         /\ NoteExit("git init", o)
         /\ StatusQuestionMark(o, "clean")
         /\ IF o = "ok"
            THEN /\ fs' = FsAdd(fs, [ p \in { Dest \o <<".git">> } |-> "dir" ])
                 /\ head' = ""
            ELSE UNCHANGED << fs, head >>
    /\ UNCHANGED << op, template, repo, docs, srcs, gen_vars, fs0, add_vars >>

\* file_name.contains("rustfmt.toml") || file_name.contains("Cargo"),
\* over the file names of the model
AllowListed(name) == name \in { "rustfmt.toml", "Cargo.toml", "Cargo.lock" }

\* the top-level files the clean-up loop removes
Residual(files, path) ==
    { p \in DirEntries(files, path) : IsFile(files, p) /\ ~AllowListed(Last(p)) }

GenClean ==
    /\ pc = "clean"
    /\ fs' = FsRemove(fs, Residual(fs, Dest))
    /\ pc' = "move"
    /\ UNCHANGED << op, result, template, repo, docs, srcs, head, ran, failed, gen_vars, fs0, add_vars >>

\* rename(2) refuses to replace a directory that is not empty, a directory by
\* a file and a file by a directory
RenameRefused(files, from, to) ==
    /\ to \in DOMAIN files
    /\ \/ files[from] # files[to]
       \/ files[to] = "dir" /\ DirEntries(files, to) # {}

RECURSIVE MoveAll(_, _, _)
\* fs::rename of each entry of the sequence entries to path/<its file name>
MoveAll(f, entries, path) ==
    IF entries = <<>> THEN f
    ELSE MoveAll(FsRename(f, Head(entries), path \o <<Last(Head(entries))>>),
                 Tail(entries), path)

GenMove ==
    /\ pc = "move"
    /\ LET local   == Dest \o repo.template_path
           entries == SortPaths(DirEntries(fs, local))
       IN  IF ~IsDir(fs, local)
              \/ \E e \in DirEntries(fs, local) :
                     RenameRefused(fs, e, Dest \o <<Last(e)>>)
           THEN Finish("err") /\ UNCHANGED << fs, docs, srcs >>
           ELSE /\ fs' = MoveAll(fs, entries, Dest)
                /\ docs' = MoveAll(docs, entries, Dest)
                /\ srcs' = MoveAll(srcs, entries, Dest)
                /\ pc' = "rm_tmpl" /\ result' = result
    /\ UNCHANGED << op, template, repo, head, ran, failed, gen_vars, fs0, add_vars >>

\* fs::remove_dir_all(local_template_path)?
GenRemoveTemplateDir ==
    /\ pc = "rm_tmpl"
    /\ fs' = FsRemove(fs, Subtree(fs, Dest \o repo.template_path))
    /\ pc' = "find"
    /\ UNCHANGED << op, result, template, repo, docs, srcs, head, ran, failed, gen_vars, fs0, add_vars >>

\* a faulty variant: the created manifest is not put on the list
PushRootForgotten(found, top) == found

\* cargo_tomls.push(top_level_cargo_toml_path)
PushRoot(found, top) == Append(found, top)

\* find_cargo_tomls, then the creation of a missing root manifest
GenFind ==
    /\ pc = "find"
    /\ LET top   == Dest \o <<"Cargo.toml">>
           found == GlobCargoTomls(fs, Dest)
       IN  IF found = <<>>
           THEN Finish("panic") /\ UNCHANGED << fs, docs, cargo_tomls, idx, docs0 >>
           ELSE /\ IF top \in Range(found)
                   THEN /\ cargo_tomls' = found
                        /\ UNCHANGED << fs, docs >>
                   ELSE /\ cargo_tomls' = PushRoot(found, top)
                        /\ fs' = FsAdd(fs, [ p \in {top} |-> "file" ])
                        /\ docs' = FsAdd(docs, [ p \in {top} |-> EmptyDoc ])
                /\ docs0' = docs'
                /\ idx' = 1
                /\ pc' = "process" /\ result' = result
    /\ UNCHANGED << op, template, repo, srcs, head, ran, failed, commit_id, fs0, add_vars >>

\* one round of cargo_tomls.iter().for_each: read, rewrite, write back
GenProcess ==
    /\ pc = "process" /\ idx <= Len(cargo_tomls)
    /\ LET t == cargo_tomls[idx]
       IN  docs' = [ docs EXCEPT ![t] =
                       ProcessManifest(t, docs[t], cargo_tomls, Remote,
                                       commit_id, Dest, fs) ]
    /\ idx' = idx + 1
    /\ UNCHANGED << op, pc, result, template, repo, fs, srcs, head, ran, failed,
                    commit_id, cargo_tomls, docs0, fs0, add_vars >>

GenDone ==
    /\ pc = "process" /\ idx > Len(cargo_tomls)
    /\ pc' = "mk_chain"
    /\ UNCHANGED << op, result, template, repo, fs, docs, srcs, head, ran, failed,
                    gen_vars, fs0, add_vars >>

\* ---------------------------------------------------------------- mk_chain

\* get_name: opts.name is None, so the name is the destination's file name
ProjectName == Last(Dest)

HasEntry(table, name) == \E i \in 1..Len(table) : table[i].name = name

EntryAt(table, name) == CHOOSE i \in 1..Len(table) : table[i].name = name

\* table[key] = item: the value of an existing key is replaced where it
\* stands, a new key goes to the end
TableAssign(table, key, item) ==
    IF HasEntry(table, key)
    THEN [ table EXCEPT ![EntryAt(table, key)] = [ item EXCEPT !.name = key ] ]
    ELSE Append(table, [ item EXCEPT !.name = key ])

\* Table::remove_entry
TableRemove(table, key) ==
    SelectSeq(table, LAMBDA e : e.name # key)

\* remove_entry(old) followed by table[new] = the removed item
RenameEntry(table, old, new) ==
    TableAssign(TableRemove(table, old), new, table[EntryAt(table, old)])

\* the loop over node_document["features"]
RenameInFeatures(features, old, new) ==
    [ i \in 1..Len(features) |->
        << features[i][1],
           [ j \in 1..Len(features[i][2]) |->
               IF Contains(features[i][2][j], old)
               THEN ReplaceAll(features[i][2][j], old, new)
               ELSE features[i][2][j] ] >> ]

\* node_document as mk_chain leaves it
MkNodeDocument(doc, node_name, old_runtime, new_runtime) ==
    [ doc EXCEPT
        !.package = Str(node_name),
        !.bin = IF doc.bin # <<>> THEN [ doc.bin EXCEPT ![1] = node_name ] ELSE doc.bin,
        !.tables["dependencies"] = RenameEntry(@, old_runtime, new_runtime),
        !.features = RenameInFeatures(@, old_runtime, new_runtime) ]

\* whether mk_chain rewrites (and writes) the root manifest
RootNamesRuntime(doc, old_runtime) ==
    doc.workspace.present /\ HasEntry(doc.workspace.dependencies, old_runtime)

\* a faulty variant: the entry renamed with its git and rev left in
MkRootDocumentPinned(doc, old_runtime, new_runtime, runtime_rel) ==
    LET dep == doc.workspace.dependencies[EntryAt(doc.workspace.dependencies, old_runtime)]
        moved == [ dep EXCEPT !.kv = KvInsert(dep.kv, "path", runtime_rel) ]
    IN  [ doc EXCEPT !.workspace.dependencies =
            TableAssign(TableRemove(@, old_runtime), new_runtime, moved) ]

\* root_document as mk_chain writes it
MkRootDocument(doc, old_runtime, new_runtime, runtime_rel) ==
    LET dep == doc.workspace.dependencies[EntryAt(doc.workspace.dependencies, old_runtime)]
        moved == [ dep EXCEPT !.kv =
                     KvInsert(KvRemove(KvRemove(dep.kv, "git"), "rev"),
                              "path", runtime_rel) ]
    IN  [ doc EXCEPT !.workspace.dependencies =
            TableAssign(TableRemove(@, old_runtime), new_runtime, moved) ]

\* glob("<path>/**/*.rs")
GlobRustFiles(files, path) ==
    { p \in DOMAIN files : IsPrefix(path, p) /\ Len(p) > Len(path)
                           /\ files[p] = "file"
                           /\ Len(Last(p)) >= 3
                           /\ SubSeq(Last(p), Len(Last(p)) - 2, Len(Last(p))) = ".rs" }

\* a faulty variant: the project descriptor written first
MkWritesDescriptorFirst == << "substrate", "root", "src", "node", "runtime" >>

\* the writes of mk_chain in program order
MkWrites == << "root", "src", "node", "runtime", "substrate" >>

WriteRank(w) == IF w = "none" THEN Len(MkWrites) + 1
                ELSE CHOOSE i \in 1..Len(MkWrites) : MkWrites[i] = w

\* mk_chain, with the write that fails with an I/O error as input (none:
\* every write succeeds)
MkChain ==
    /\ pc = "mk_chain"
    /\ LET node_path     == Dest \o <<"node">>
           runtime_path  == Dest \o <<"runtime">>
           node_manifest == node_path \o <<"Cargo.toml">>
           runtime_manifest == runtime_path \o <<"Cargo.toml">>
           root_manifest == Dest \o <<"Cargo.toml">>
           substrate_manifest == Dest \o <<"Substrate.toml">>
           present == { node_manifest, runtime_manifest, root_manifest } \subseteq DOMAIN docs
       IN  IF ~present
           THEN \* get_package_name(..).expect(..) on a missing manifest
                Finish("panic") /\ UNCHANGED << fs, docs, srcs >>
           ELSE IF docs[runtime_manifest].package = <<>> \/ docs[node_manifest].package = <<>>
           THEN \* "no name found in manifest"
                Finish("err") /\ UNCHANGED << fs, docs, srcs >>
           ELSE
           LET old_runtime == docs[runtime_manifest].package[1]
               old_snake   == to_snake_case(old_runtime)
               node_name   == ProjectName \o "-node"
               new_runtime == ProjectName \o "-runtime"
               new_snake   == to_snake_case(new_runtime)
               node_doc    == docs[node_manifest]
               root_doc    == docs[root_manifest]
               rust_files  == GlobRustFiles(fs, node_path)
               writes_root == RootNamesRuntime(root_doc, old_runtime)
           IN  IF \/ ~HasEntry(node_doc.tables["dependencies"], old_runtime)
                  \/ node_doc.features = <<>>
                  \/ rust_files = {}
                  \/ /\ writes_root
                     /\ ~AsInlineTable(root_doc.workspace.dependencies[
                            EntryAt(root_doc.workspace.dependencies, old_runtime)])
               THEN \* an unwrap() of None, or find_rust_files finding nothing
                    Finish("panic") /\ UNCHANGED << fs, docs, srcs >>
               ELSE \E fail \in Range(MkWrites) \cup {"none"} :
                    \* a write of Substrate.toml that fails after its open
                    \* has created the file leaves it empty
                    \E created \in BOOLEAN :
                    /\ fail = "root" => writes_root
                    /\ created => fail = "substrate"
                    /\ LET done(w) == WriteRank(w) < WriteRank(fail)
                       IN  /\ docs' =
                                [ q \in DOMAIN docs
                                        \cup (IF done("substrate") \/ created
                                              THEN {substrate_manifest} ELSE {}) |->
                                    IF q = root_manifest /\ writes_root /\ done("root")
                                    THEN MkRootDocument(root_doc, old_runtime,
                                                        new_runtime, <<"runtime">>)
                                    ELSE IF q = node_manifest /\ done("node")
                                    THEN MkNodeDocument(node_doc, node_name,
                                                        old_runtime, new_runtime)
                                    ELSE IF q = runtime_manifest /\ done("runtime")
                                    THEN [ docs[q] EXCEPT !.package = Str(new_runtime) ]
                                    ELSE IF q = substrate_manifest /\ done("substrate")
                                    THEN [ EmptyDoc EXCEPT !.type = Str("chain") ]
                                    ELSE IF q = substrate_manifest THEN EmptyDoc
                                    ELSE docs[q] ]
                           /\ srcs' = [ q \in DOMAIN srcs |->
                                          IF q \in rust_files /\ done("src")
                                          THEN ReplaceAll(srcs[q], old_snake, new_snake)
                                          ELSE srcs[q] ]
                           /\ fs' = IF done("substrate") \/ created
                                    THEN FsAdd(fs, [ q \in {substrate_manifest} |-> "file" ])
                                    ELSE fs
                    /\ Finish(IF fail = "none" THEN "ok" ELSE "err")
    /\ UNCHANGED << op, template, repo, head, ran, failed, gen_vars, fs0, add_vars >>

\* ------------------------------------------------------------ new_contract

\* validate_cargo_contract_installation: `cargo install` when which() finds
\* no cargo-contract; its exit status is not looked at
ContractInstall ==
    /\ pc = "cc_install"
    /\ \E have \in BOOLEAN, o \in {"ok", "spawn_err"} :
         /\ have => o = "ok"
         /\ ran' = IF have THEN ran ELSE Append(ran, "cargo install cargo-contract")
         /\ StatusQuestionMark(o, "cc_new")
    /\ UNCHANGED << op, template, repo, fs, docs, srcs, head, failed, gen_vars, fs0, add_vars >>

\* create_smart_contract: create_dir_all(parent), then `cargo-contract
\* contract new`, whose exit status is checked
CreateSmartContract ==
    /\ pc = "cc_new"
    /\ \E o \in Outcomes :
         /\ NoteExit("cargo-contract new", o)
         /\ IF o = "ok"
            THEN /\ fs' = FsAdd(fs, [ p \in { Dest, Dest \o <<"Cargo.toml">>,
                                             Dest \o <<"lib.rs">> } |->
                                        IF p = Dest THEN "dir" ELSE "file" ])
                 /\ docs' = FsAdd(docs, [ p \in { Dest \o <<"Cargo.toml">> } |->
                                            [ EmptyDoc EXCEPT !.package = Str(ProjectName) ] ])
                 /\ pc' = "mk_contract" /\ result' = result
            ELSE /\ Finish("err")
                 /\ UNCHANGED << fs, docs >>
    /\ UNCHANGED << op, template, repo, srcs, head, gen_vars, fs0, add_vars >>

\* mk_contract: the project descriptor, type = contract
MkContract ==
    /\ pc = "mk_contract"
    /\ \E io_ok \in BOOLEAN :
         IF io_ok
         THEN /\ fs' = FsAdd(fs, [ p \in { Dest \o <<"Substrate.toml">> } |-> "file" ])
              /\ docs' = FsAdd(docs, [ p \in { Dest \o <<"Substrate.toml">> } |->
                                         [ EmptyDoc EXCEPT !.type = Str("contract") ] ])
              /\ Finish("ok")
         ELSE Finish("err") /\ UNCHANGED << fs, docs >>
    /\ UNCHANGED << op, template, repo, srcs, head, ran, failed, gen_vars, fs0, add_vars >>

\* ------------------------------------------------------ run / build / test

\* A tool wrapper: Command::new(..).status()?; Ok(())
ToolWrapper(name, cmd) ==
    /\ pc = "start" /\ op = name
    /\ \E o \in Outcomes :
         /\ NoteExit(cmd, o)
         /\ Finish(IF o = "spawn_err" THEN "err" ELSE "ok")
    /\ UNCHANGED << op, template, repo, fs, docs, srcs, head, gen_vars, fs0, add_vars >>

Run == \E chain \in { "dev", "local" } :
         ToolWrapper("run", IF chain = "dev" THEN "cargo run -- --dev"
                            ELSE "cargo run -- --chain")

Build == ToolWrapper("build", "cargo-contract contract build")

Test == ToolWrapper("test", "cargo test")

\* ------------------------------------------------------- pallet injection

\* the regex class \s on the texts used here
IsWs(c) == c = " " \/ c = "\t" \/ c = "\n" \/ c = "\r"

\* the position after the whitespace run that starts at i
SkipWs(s, i) ==
    LET stop == { j \in i..Len(s) : ~IsWs(Char(s, j)) }
    IN  IF stop = {} THEN Len(s) + 1 ELSE SetMin(stop)

\* A regex piece matched at position i yields the position after it and 0
\* when it does not match; a piece applied at 0 yields 0.
\* a literal
Lit(s, i, lit) == IF i # 0 /\ StartsAt(s, i, lit) THEN i + Len(lit) ELSE 0

\* \s+
Ws1(s, i) == IF i # 0 /\ i <= Len(s) /\ IsWs(Char(s, i)) THEN SkipWs(s, i) ELSE 0

\* \s*
Ws0(s, i) == IF i = 0 THEN 0 ELSE SkipWs(s, i)

\* pallet_trait_existing matched at i:
\*     (?xm) ^impl\s+<mod>::Config\s+for\s+Runtime\s+\{ [^\}]+ \}
\* the position after the match, 0 when it does not match at i
ImplEnd(s, i, mod_name) ==
    LET a     == IF i = 1 \/ Char(s, i - 1) = "\n" THEN Lit(s, i, "impl") ELSE 0
        b     == Lit(s, Ws1(s, a), mod_name \o "::Config")
        c     == Lit(s, Ws1(s, b), "for")
        d     == Lit(s, Ws1(s, c), "Runtime")
        e     == Lit(s, Ws1(s, d), "{")
        close == IF e = 0 THEN 0 ELSE Find(s, "}", e)
    IN  IF e = 0 \/ close = 0 \/ close = e THEN 0 ELSE close + 1

NoMatch == [ start |-> 0 ]

\* the leftmost match of pallet_trait_existing: start and the position after
pallet_trait_existing(s, mod_name) ==
    LET at == { i \in 1..Len(s) : StartsAt(s, i, "impl") /\ ImplEnd(s, i, mod_name) # 0 }
    IN  IF at = {} THEN NoMatch
        ELSE [ start |-> SetMin(at), end |-> ImplEnd(s, SetMin(at), mod_name) ]

\* construct_runtime up to the brace that opens the pallets, matched at i:
\*     construct_runtime!\(\s*(pub\s+)?(enum|struct)\s+Runtime\s*(where[^\{]+)?\{
\* the position of that brace, 0 when it does not match at i
CrOpen(s, i) ==
    LET a     == Ws0(s, Lit(s, i, "construct_runtime!("))
        vis   == Ws1(s, Lit(s, a, "pub"))
        b     == IF vis # 0 THEN vis ELSE a
        k     == IF Lit(s, b, "enum") # 0 THEN Lit(s, b, "enum") ELSE Lit(s, b, "struct")
        w     == Ws0(s, Lit(s, Ws1(s, k), "Runtime"))
        wh    == Lit(s, w, "where")
        brace == IF wh = 0 THEN 0 ELSE Find(s, "{", wh)
    IN  IF wh # 0 THEN (IF brace > wh THEN brace ELSE 0)
        ELSE IF Lit(s, w, "{") # 0 THEN w ELSE 0

\* the braces that can close the pallets opened at open:
\*     \{(?P<pallets>[\s\S]+)\}\s*\);
CrCloses(s, open) ==
    { c \in (open + 2)..Len(s) : Char(s, c) = "}" /\ Lit(s, Ws0(s, c + 1), ");") # 0 }

\* The leftmost match of construct_runtime: where it starts, the brace that
\* opens the pallets and, the group being greedy, the last brace that can
\* close them.
construct_runtime(s) ==
    LET at == { i \in 1..Len(s) : /\ StartsAt(s, i, "construct_runtime!(")
                                  /\ CrOpen(s, i) # 0
                                  /\ CrCloses(s, CrOpen(s, i)) # {} }
    IN  IF at = {} THEN NoMatch
        ELSE LET i == SetMin(at)
             IN  [ start |-> i, open |-> CrOpen(s, i),
                   close |-> SetMax(CrCloses(s, CrOpen(s, i))) ]

\* the skeleton implementation
pallet_trait_impl(mod_name) ==
    "impl " \o mod_name \o "::Config for Runtime { \n"
    \o "\t/* " \o mod_name \o " Trait config goes here */ \n"
    \o "}"

\* the registration entry, a raw string that opens with a line break
pallet_config(mod_name) ==
    "\n        " \o to_pascal_case(mod_name) \o ": " \o mod_name \o ","

\* a faulty variant: no line number recorded
LineNumberNone(original, start) == <<>>

\* original[..start].lines().count() + 1, for a match at position start
LineNumber(original, start) == << Len(Lines(SubSeq(original, 1, start - 1))) + 1 >>

\* The branch taken when pallet_trait_existing matches: the first match is
\* replaced by the skeleton.
ReplaceImpl(original, mod_name) ==
    Bind(pallet_trait_existing(original, mod_name), LAMBDA m :
         [ err |-> FALSE,
           buffer |-> SubSeq(original, 1, m.start - 1) \o pallet_trait_impl(mod_name)
                      \o SubSeq(original, m.end, Len(original)),
           line_number |-> LineNumber(original, m.start) ])

\* The branch taken when it does not: the skeleton and a blank line go in
\* where the construct_runtime match starts.
InsertImpl(original, mod_name) ==
    Bind(construct_runtime(original), LAMBDA mat :
         IF mat = NoMatch
         THEN [ err |-> TRUE, buffer |-> original, line_number |-> <<>> ]
         ELSE [ err |-> FALSE,
                buffer |-> InsertStr(original, mat.start - 1,
                                     pallet_trait_impl(mod_name) \o "\n\n"),
                line_number |-> LineNumber(original, mat.start) ])

\* position() of the first line of the pallets that contains mod_name, 0 if none
LineWithModName(existing_pallets, mod_name) ==
    Bind(Lines(existing_pallets), LAMBDA ls :
         LET at == { n \in 1..Len(ls) : Contains(ls[n], mod_name) }
         IN  IF at = {} THEN 0 ELSE SetMin(at))

\* The second half of add_pallet_to_runtime, from the captures on: the text
\* written to the file.
RegisterPallet(modified, caps, mod_name) ==
    Bind(SubSeq(modified, caps.open + 1, caps.close - 1), LAMBDA existing_pallets :
    Bind(LineWithModName(existing_pallets, mod_name), LAMBDA n :
         IF n # 0
         THEN Bind(Lines(existing_pallets)[n], LAMBDA line_to_replace :
              Bind(ReplaceAll(existing_pallets, line_to_replace,
                              Tail(pallet_config(mod_name))),
                   LAMBDA new_existing_pallets :
                       ReplaceFirst(modified, existing_pallets, new_existing_pallets)))
         ELSE InsertStr(modified, caps.close - 3, pallet_config(mod_name))))

\* a faulty variant: the buffer written out before the lookup fails
NotFoundAfterWrite(original, buffer) ==
    [ err |-> TRUE, file |-> buffer, line_number |-> <<>> ]

\* `.ok_or_else(|| anyhow!("couldn't find construct_runtime call"))?`: the
\* function returns Err with the buffer dropped and the file as it was
NotFound(original, buffer) ==
    [ err |-> TRUE, file |-> original, line_number |-> <<>> ]

\* add_pallet_to_runtime on the text of runtime/src/lib.rs: whether it returns
\* Err, the text the file holds afterwards and the Option it returns.
add_pallet_to_runtime(original, crate) ==
    Bind(to_snake_case(crate), LAMBDA mod_name :
    Bind(IF pallet_trait_existing(original, mod_name) # NoMatch
         THEN ReplaceImpl(original, mod_name)
         ELSE InsertImpl(original, mod_name), LAMBDA first :
    Bind(construct_runtime(first.buffer), LAMBDA caps :
         IF first.err \/ caps = NoMatch
         THEN NotFound(original, first.buffer)
         ELSE [ err |-> FALSE,
                file |-> RegisterPallet(first.buffer, caps, mod_name),
                line_number |-> first.line_number ])))

\* ------------------------------------------------ runtime sources to inject in

\* opts.crate_spec
Crates == { "pallet-foo", "pallet-foo-bar" }

\* what stands in runtime/src/lib.rs before construct_runtime
Preamble ==
    "pub type Index = u32;\n\n"
    \o "impl frame_system::Config for Runtime {\n\ttype Index = Index;\n}\n\n"

\* what the file may already hold for pallet_foo: nothing, an implementation
\* with items, one with an empty body, one with a brace inside its body
ImplTexts ==
    { "",
      "impl pallet_foo::Config for Runtime {\n\ttype Event = Event;\n}\n\n",
      "impl pallet_foo::Config for Runtime {}\n\n",
      "impl pallet_foo::Config for Runtime {\n\ttype Max = ConstU32<{ 4 }>;\n}\n\n" }

\* construct_runtime as the templates and their users write it
RuntimePlain ==
    "construct_runtime!(\n\tpub enum Runtime {\n\t\tSystem: frame_system,\n\t}\n);\n"

RuntimeWhere ==
    "construct_runtime!(\n\tpub struct Runtime where\n\t\tBlock = Block\n\t{\n"
    \o "\t\tSystem: frame_system,\n\t\tPalletFoo: pallet_foo,\n\t}\n);\n"

RuntimeOneLine == "construct_runtime!(pub enum Runtime { System: frame_system });\n"

RuntimeQualified ==
    "frame_support::construct_runtime!(\n\tpub enum Runtime {\n"
    \o "\t\tSystem: frame_system,\n\t}\n);\n"

RuntimeLongerName ==
    "construct_runtime!(\n\tpub enum Runtime {\n\t\tSystem: frame_system,\n"
    \o "\t\tPalletFooBar: pallet_foo_bar,\n\t}\n);\n"

\* the pallets under comments that name their modules
RuntimeCommented ==
    "construct_runtime!(\n\tpub enum Runtime {\n\t\tSystem: frame_system,\n"
    \o "\t\t// pallet_foo\n\t\tFoo: pallet_foo,\n"
    \o "\t\t// pallet_foo_bar\n\t\tFooBar: pallet_foo_bar,\n\t}\n);\n"

\* texts without a construct_runtime call the regex accepts
RuntimeAbsent == "// #[frame_support::runtime]\nmod runtime {}\n"

RuntimeUnclosed ==
    "construct_runtime!(\n\tpub enum Runtime {\n\t\tSystem: frame_system,\n\t}\n)\n"

RuntimeTexts == { RuntimePlain, RuntimeWhere, RuntimeOneLine, RuntimeQualified,
                  RuntimeLongerName, RuntimeCommented, RuntimeAbsent, RuntimeUnclosed }

LibTexts == { Preamble \o i \o r : i \in ImplTexts, r \in RuntimeTexts }

\* -------------------------------------------------- the project add_pallet sees

\* bound: how many times add_pallet is invoked for the crate
MaxCalls == 2

\* ChainInfo.runtime_path joined to the project directory
RuntimeManifest == Dest \o <<"runtime", "Cargo.toml">>

RuntimeLib == Dest \o <<"runtime", "src", "lib.rs">>

ProjectFs ==
    FsAdd(RootOnly,
          [ p \in { Dest, Dest \o <<"Cargo.toml">>, Dest \o <<"runtime">>,
                    RuntimeManifest, Dest \o <<"runtime", "src">>, RuntimeLib } |->
              IF Last(p) \in { "Cargo.toml", "lib.rs" } THEN "file" ELSE "dir" ])

\* The `std` arrays a runtime manifest comes with, as cargo and this program
\* write them (no entry twice): without the crate's feature, with it last,
\* with it first, with entries that merely resemble it, and empty.
StdArrays ==
    { << "frame-support/std", "pallet-template/std" >>,
      << "frame-support/std", "pallet-foo/std" >>,
      << "pallet-foo-bar/std", "pallet-foo/std", "frame-support/std" >>,
      << "pallet-foo", "pallet-foo-bar/std" >>,
      << >> }

\* [features] of the runtime manifest; one manifest has no `std` feature
FeatureTables ==
    { << <<"default", <<"std">> >>, <<"std", a>> >> : a \in StdArrays }
    \cup { << <<"default", <<>> >> >> }

ProjectDocs == { [ p \in { RuntimeManifest } |-> [ RuntimeDoc EXCEPT !.features = f ] ] :
                 f \in FeatureTables }

ProjectSrcs == { [ p \in { RuntimeLib } |-> t ] : t \in LibTexts }

\* the state add_pallet is invoked in
InitAdd ==
    /\ op = "add_pallet"
    /\ pc = "start"
    /\ result = "none"
    /\ template = "Substrate" /\ repo = DefaultRepo
    /\ fs = ProjectFs
    /\ docs \in ProjectDocs
    /\ srcs \in ProjectSrcs
    /\ head = "none"
    /\ ran = <<>>
    /\ failed = {}
    /\ commit_id = ""
    /\ cargo_tomls = <<>>
    /\ idx = 0
    /\ fs0 = fs
    /\ docs0 = docs
    /\ crate_spec \in Crates
    /\ returned = <<>>
    /\ calls = 0
    /\ srcs0 = srcs
    /\ injection = "none"
    /\ injected = 0
    /\ content = <<>>
    /\ item_idx = 0
    /\ extracted_fields = <<>>
    /\ manifest_file = NoFile /\ manifest_file0 = NoFile
    /\ bytes = "" /\ cursor = 0
    /\ NoCall

\* add_pallet returns r
AddFinish(r) == pc' = "done" /\ result' = r /\ calls' = calls + 1

\* ----------------------------------------------------------------- add_pallet

HasStd(features) == KvHas(features, "std")

\* a faulty variant: the push without the search
PushFeatureAlways(feature_array, feature) == Append(feature_array, feature)

\* the push onto the `std` array, guarded by the search for the feature
PushFeature(feature_array, feature) ==
    IF ~(\E i \in 1..Len(feature_array) : feature_array[i] = feature)
    THEN Append(feature_array, feature)
    ELSE feature_array

\* add_pallet_std_to_manifest on the parsed runtime manifest: the document
\* it writes back
add_pallet_std_to_manifest(runtime_document, crate) ==
    LET feature == crate \o "/std"
    IN  [ runtime_document EXCEPT
            !.features = KvInsert(@, "std", PushFeature(KvGet(@, "std"), feature)) ]

\* what `cargo add -p <runtime> <crate> --no-default-features` leaves in the
\* runtime manifest: the crate among [dependencies]
CargoAdd(doc, crate) ==
    LET deps == doc.tables["dependencies"]
        decl == Decl(crate, "inline", << <<"version", Str("1.0")>>,
                                         <<"default-features", Str("false")>> >>)
    IN  IF \E i \in 1..Len(deps) : deps[i].name = crate THEN doc
        ELSE [ doc EXCEPT !.tables["dependencies"] = Append(deps, decl) ]

\* a faulty variant: the exit status not looked at
AddCargoAddUnchecked ==
    /\ op = "add_pallet" /\ pc = "start"
    /\ \E o \in Outcomes :
         /\ NoteExit("cargo add", o)
         /\ IF o # "spawn_err"
            THEN /\ docs' = IF o = "ok"
                            THEN [ docs EXCEPT ![RuntimeManifest] = CargoAdd(@, crate_spec) ]
                            ELSE docs
                 /\ pc' = "add_std" /\ result' = result /\ calls' = calls
            ELSE /\ AddFinish("err")
                 /\ docs' = docs
    /\ UNCHANGED << op, template, repo, fs, srcs, head, gen_vars, fs0,
                    crate_spec, returned, srcs0, injection, injected, ext_vars >>

\* `cargo add`, whose exit status add_pallet checks
AddCargoAdd ==
    /\ op = "add_pallet" /\ pc = "start"
    /\ \E o \in Outcomes :
         /\ NoteExit("cargo add", o)
         /\ IF o = "ok"
            THEN /\ docs' = [ docs EXCEPT ![RuntimeManifest] = CargoAdd(@, crate_spec) ]
                 /\ pc' = "add_std" /\ result' = result /\ calls' = calls
            ELSE /\ AddFinish("err")
                 /\ docs' = docs
    /\ UNCHANGED << op, template, repo, fs, srcs, head, gen_vars, fs0,
                    crate_spec, returned, srcs0, injection, injected, ext_vars >>

\* add_pallet_std_to_manifest: read_document()?, the unwraps on
\* features.std, write_document()?
AddStd ==
    /\ op = "add_pallet" /\ pc = "add_std"
    /\ \E io \in { "ok", "read_err", "write_err" } :
         IF io = "read_err"
         THEN AddFinish("err") /\ docs' = docs
         ELSE IF ~HasStd(docs[RuntimeManifest].features)
         THEN AddFinish("panic") /\ docs' = docs
         ELSE IF io = "write_err"
         THEN AddFinish("err") /\ docs' = docs
         ELSE /\ docs' = [ docs EXCEPT ![RuntimeManifest] =
                             add_pallet_std_to_manifest(@, crate_spec) ]
              /\ pc' = "add_runtime" /\ result' = result /\ calls' = calls
    /\ UNCHANGED << op, template, repo, fs, srcs, head, ran, failed, gen_vars, fs0,
                    crate_spec, returned, srcs0, injection, injected, ext_vars >>

\* add_pallet_to_runtime and the rest of add_pallet
AddToRuntime ==
    /\ op = "add_pallet" /\ pc = "add_runtime"
    /\ \E r \in { add_pallet_to_runtime(srcs[RuntimeLib], crate_spec) } :
           /\ srcs' = [ srcs EXCEPT ![RuntimeLib] = r.file ]
           /\ returned' = r.line_number
           /\ injection' = (IF r.err THEN "err" ELSE "ok")
           /\ injected' = (IF r.err THEN injected ELSE injected + 1)
           /\ AddFinish(IF r.err THEN "err" ELSE "ok")
    /\ UNCHANGED << op, template, repo, fs, docs, head, ran, failed, gen_vars, fs0,
                    crate_spec, srcs0, ext_vars >>

\* the user invokes add_pallet for the same crate once more
AddAgain ==
    /\ op = "add_pallet" /\ pc = "done" /\ calls < MaxCalls
    /\ pc' = "start" /\ result' = "none"
    /\ ran' = <<>> /\ failed' = {}
    /\ docs0' = docs /\ srcs0' = srcs
    /\ returned' = <<>> /\ injection' = "none"
    /\ UNCHANGED << op, template, repo, fs, docs, srcs, head, commit_id, cargo_tomls,
                    idx, fs0, crate_spec, calls, injected, ext_vars >>

\* ----------------------------------------------------------- specification

Next ==
    \/ NewCheckExists
    \/ NewValidate
    \/ ValidateRust
    \/ GenLoadConfig
    \/ GenClone
    \/ GenCommitId
    \/ GenSparse
    \/ GenRemoveGit
    \/ GenGitInit
    \/ GenClean
    \/ GenMove
    \/ GenRemoveTemplateDir
    \/ GenFind
    \/ GenProcess
    \/ GenDone
    \/ MkChain
    \/ ContractInstall
    \/ CreateSmartContract
    \/ MkContract
    \/ Run
    \/ Build
    \/ Test
    \/ AddCargoAdd
    \/ AddStd
    \/ AddToRuntime
    \/ AddAgain

Spec == (Init \/ InitAdd) /\ [][Next]_vars

\* ------------------------------------------- chain-specification extractor

\* bound: how many sub-patterns the or-patterns drawn for an arm have
MaxCases == 2

\* bound: how many items the files drawn have
MaxItems == 2

\* syn::Pat, by shape: "ident", "lit_str", "lit_other", "path", "or", "wild",
\* "tuple", "range". text holds the string of a literal, the identifier of a
\* binding or the segments of a path; cases the sub-patterns.
Pat(shape, text, cases) == [ shape |-> shape, text |-> text, cases |-> cases ]

PatIdent(name) == Pat("ident", << name >>, <<>>)

PatLitStr(value) == Pat("lit_str", << value >>, <<>>)

PatLitInt == Pat("lit_other", << "1" >>, <<>>)

PatPath(segments) == Pat("path", segments, <<>>)

PatOr(cases) == Pat("or", <<>>, cases)

PatWild == Pat("wild", <<>>, <<>>)

PatTuple(elems) == Pat("tuple", <<>>, elems)

PatRange == Pat("range", << "0", "9" >>, <<>>)

\* Option<Vec<String>>, or the panic
SomeFields(fields) == [ kind |-> "some", fields |-> fields ]

NoFields == [ kind |-> "none", fields |-> <<>> ]

Panicked == [ kind |-> "panic", fields |-> <<>> ]

RECURSIVE LowerFrom(_, _)
LowerFrom(s, i) ==
    IF i > Len(s) THEN "" ELSE ToLower(Char(s, i)) \o LowerFrom(s, i + 1)

\* a faulty variant: the case kept
to_lowercase_kept(s) == s

\* str::to_lowercase
to_lowercase(s) == LowerFrom(s, 1)

RECURSIVE FlattenFrom(_, _)
\* .flatten().collect() over the Some results from position i on
FlattenFrom(results, i) ==
    IF i > Len(results) THEN <<>>
    ELSE results[i].fields \o FlattenFrom(results, i + 1)

\* a faulty variant: a panic in a case is taken for a None
CollectCasesNoUnwind(results) == SomeFields(FlattenFrom(results, 1))

\* a faulty variant: the cases after one that yields None are dropped
CollectCasesUntilNone(results) ==
    IF \E i \in 1..Len(results) : results[i].kind = "panic" THEN Panicked
    ELSE SomeFields(FlattenFrom(
             SubSeq(results, 1,
                    SetMin({ i \in 1..Len(results) : results[i].kind = "none" }
                           \cup { Len(results) + 1 }) - 1), 1))

\* The Pat::Or arm, given what extract_field_names returned for the cases:
\* filter_map drops the None, flatten joins the rest in order; a panic in a
\* case unwinds through it.
CollectCases(results) ==
    IF \E i \in 1..Len(results) : results[i].kind = "panic" THEN Panicked
    ELSE SomeFields(FlattenFrom(results, 1))

RECURSIVE extract_field_names(_)
extract_field_names(pat) ==
    IF pat.shape = "ident" THEN NoFields
    ELSE IF pat.shape = "lit_str"
    THEN (IF pat.text[1] # "" THEN SomeFields(<< pat.text[1] >>) ELSE NoFields)
    ELSE IF pat.shape = "lit_other" THEN NoFields
    ELSE IF pat.shape = "path"
    THEN (IF pat.text # <<>> THEN SomeFields(<< to_lowercase(Last(pat.text)) >>)
          ELSE NoFields)
    ELSE IF pat.shape = "or"
    THEN Bind([ i \in 1..Len(pat.cases) |-> extract_field_names(pat.cases[i]) ],
              LAMBDA results : CollectCases(results))
    ELSE Panicked

\* syn::Expr, by kind: "call" with its args, "match" with the patterns of its
\* arms, "other"
Expr(kind, args, arms) == [ kind |-> kind, args |-> args, arms |-> arms ]

ExprMatch(arms) == Expr("match", <<>>, arms)

ExprCall(args) == Expr("call", args, <<>>)

ExprOther == Expr("other", <<>>, <<>>)

\* syn::Stmt: Stmt::Expr with its expression, or another statement
Stmt(kind, expr) == [ kind |-> kind, expr |-> expr ]

\* a faulty variant: a name already collected is left out
ExtendUnique(fields, more) ==
    fields \o SelectSeqBy(more, Range(more) \ Range(fields))

\* Vec::extend
Extend(fields, more) == fields \o more

RECURSIVE ArmsFrom(_, _, _)
\* the loop over match_expr.arms from arm i on, acc being extracted_fields
ArmsFrom(arms, i, acc) ==
    IF i > Len(arms) THEN SomeFields(acc)
    ELSE Bind(extract_field_names(arms[i]), LAMBDA r :
              IF r.kind = "panic" THEN Panicked
              ELSE IF r.kind = "some"
              THEN Bind(Extend(acc, r.fields), LAMBDA a : ArmsFrom(arms, i + 1, a))
              ELSE ArmsFrom(arms, i + 1, acc))

RECURSIVE ArgsFrom(_, _, _)
\* the loop over call_expr.args from argument i on
ArgsFrom(args, i, acc) ==
    IF i > Len(args) THEN SomeFields(acc)
    ELSE IF args[i].kind = "match"
    THEN Bind(ArmsFrom(args[i].arms, 1, acc), LAMBDA r :
              IF r.kind = "panic" THEN Panicked
              ELSE ArgsFrom(args, i + 1, r.fields))
    ELSE ArgsFrom(args, i + 1, acc)

RECURSIVE StmtsFrom(_, _, _)
\* the loop over block.stmts from statement i on
StmtsFrom(stmts, i, acc) ==
    IF i > Len(stmts) THEN SomeFields(acc)
    ELSE IF stmts[i].kind = "expr" /\ stmts[i].expr.kind = "call"
    THEN Bind(ArgsFrom(stmts[i].expr.args, 1, acc), LAMBDA r :
              IF r.kind = "panic" THEN Panicked
              ELSE StmtsFrom(stmts, i + 1, r.fields))
    ELSE StmtsFrom(stmts, i + 1, acc)

\* extract_fields_from_load_spec on a function body
extract_fields_from_load_spec(block) == StmtsFrom(block, 1, <<>>)

\* syn::ImplItem and syn::Item, by kind. An impl carries the segments of its
\* trait path (<<>> for an inherent impl) and its items; a function its name
\* and the statements of its block.
ItemFn(name, block) ==
    [ kind |-> "fn", trait |-> <<>>, name |-> name, block |-> block, items |-> <<>> ]

ItemImpl(trait, items) ==
    [ kind |-> "impl", trait |-> trait, name |-> "", block |-> <<>>, items |-> items ]

ItemOther == [ kind |-> "other", trait |-> <<>>, name |-> "", block |-> <<>>, items |-> <<>> ]

RECURSIVE MethodsFrom(_, _, _)
\* the loop over impl_item.items from item i on
MethodsFrom(items, i, acc) ==
    IF i > Len(items) THEN SomeFields(acc)
    ELSE IF items[i].kind = "fn" /\ items[i].name = "load_spec"
    THEN Bind(extract_fields_from_load_spec(items[i].block), LAMBDA r :
              IF r.kind = "panic" THEN Panicked
              ELSE Bind(Extend(acc, r.fields), LAMBDA a : MethodsFrom(items, i + 1, a)))
    ELSE MethodsFrom(items, i + 1, acc)

\* path.segments.last() is SubstrateCli
IsSubstrateCli(trait) == trait # <<>> /\ Last(trait) = "SubstrateCli"

\* The body of the loop of extract_match_fields for one item of the file: the
\* extracted_fields afterwards, or the panic.
ExtractFromItem(item, acc) ==
    IF item.kind = "impl" /\ IsSubstrateCli(item.trait)
    THEN MethodsFrom(item.items, 1, acc)
    ELSE IF item.kind = "fn" /\ item.name = "load_spec"
    THEN Bind(extract_fields_from_load_spec(item.block), LAMBDA r :
              IF r.kind = "panic" THEN Panicked
              ELSE SomeFields(Extend(acc, r.fields)))
    ELSE SomeFields(acc)

\* ------------------------------------------------------ command.rs files

PatDev == PatLitStr("dev")

PatStaging == PatPath(<< "chain_spec", "STAGING" >>)

\* the patterns that are no or-pattern
BasePatterns ==
    { PatDev, PatLitStr(""), PatLitInt, PatStaging, PatIdent("path"),
      PatWild, PatTuple(<< PatIdent("a"), PatIdent("b") >>), PatRange }

\* or-patterns to nest in others: one that yields two names, one that yields
\* none, one that holds a wildcard
InnerOrs ==
    { PatOr(<< PatDev, PatStaging >>), PatOr(<< PatLitStr(""), PatIdent("path") >>),
      PatOr(<< PatLitStr("local"), PatWild >>) }

NonEmptySeqs(S, n) == UNION { [ 1..k -> S ] : k \in 1..n }

Patterns ==
    BasePatterns
    \cup { PatOr(cases) : cases \in NonEmptySeqs(BasePatterns \cup InnerOrs, MaxCases) }

\* `Ok(match id { <arms> })` as the tail of a function
OkMatch(arms) == << Stmt("expr", ExprCall(<< ExprMatch(arms) >>)) >>

\* load_spec as the node templates write it
BlockUsual ==
    OkMatch(<< PatDev, PatOr(<< PatLitStr(""), PatLitStr("local") >>), PatIdent("path") >>)

\* a `let` first, and a call with an argument before the match
BlockStaging ==
    << Stmt("local", ExprOther),
       Stmt("expr", ExprCall(<< ExprOther, ExprMatch(<< PatDev, PatStaging >>) >>)) >>

\* the match as the tail expression itself, in no call
BlockBareMatch == << Stmt("expr", ExprMatch(<< PatDev >>)) >>

BlockWildcard == OkMatch(<< PatLitStr("local"), PatWild >>)

\* `impl SubstrateCli for Cli`, load_spec after another method
ImplCli ==
    ItemImpl(<< "SubstrateCli" >>, << ItemFn("impl_name", BlockStaging),
                                      ItemFn("load_spec", BlockUsual) >>)

\* `impl sc_cli::SubstrateCli for Cli`
ImplQualifiedCli ==
    ItemImpl(<< "sc_cli", "SubstrateCli" >>, << ItemFn("load_spec", BlockStaging) >>)

\* a trait path that has SubstrateCli as another segment than the last
ImplOtherTrait ==
    ItemImpl(<< "SubstrateCli", "Display" >>, << ItemFn("load_spec", BlockUsual) >>)

\* `impl Cli { fn load_spec .. }`
ImplInherent == ItemImpl(<<>>, << ItemFn("load_spec", BlockUsual) >>)

FnLoadSpec == ItemFn("load_spec", BlockStaging)

ItemPool ==
    { ImplCli, ImplQualifiedCli, ImplOtherTrait, ImplInherent, FnLoadSpec,
      ItemFn("load_spec", BlockBareMatch),
      ItemFn("load_spec", BlockWildcard),
      ItemFn("run", BlockUsual),
      ItemOther }

\* a file with one load_spec of one arm
OneArm(pat) == << ItemFn("load_spec", OkMatch(<< pat >>)) >>

\* "dev" => .., "local" | "local-testnet" => .., other::PRESET => .., other => ..
BlockPreset ==
    OkMatch(<< PatDev, PatOr(<< PatLitStr("local"), PatLitStr("local-testnet") >>),
               PatPath(<< "other", "PRESET" >>), PatIdent("other") >>)

Files ==
    { OneArm(pat) : pat \in Patterns } \cup SeqsUpTo(ItemPool, MaxItems)
    \cup { << ItemFn("load_spec", BlockPreset) >> }

\* the state input_chain is entered in
InitExtract ==
    /\ op = "input_chain"
    /\ pc = "start"
    /\ result = "none"
    /\ template = "Substrate" /\ repo = DefaultRepo
    /\ fs = TakenFs
    /\ docs = NoDocs
    /\ srcs = NoSrcs
    /\ head = "none"
    /\ ran = <<>>
    /\ failed = {}
    /\ commit_id = ""
    /\ cargo_tomls = <<>>
    /\ idx = 0
    /\ fs0 = fs
    /\ docs0 = NoDocs
    /\ crate_spec = ""
    /\ returned = <<>>
    /\ calls = 0
    /\ srcs0 = NoSrcs
    /\ injection = "none"
    /\ injected = 0
    /\ content \in Files
    /\ item_idx = 0
    /\ extracted_fields = <<>>
    /\ manifest_file = NoFile /\ manifest_file0 = NoFile
    /\ bytes = "" /\ cursor = 0
    /\ NoCall

ExtractUnchanged ==
    UNCHANGED << op, template, repo, fs, docs, srcs, head, ran, failed, gen_vars, fs0,
                 crate_spec, returned, calls, srcs0, injection, injected, content,
                 write_vars, util_vars >>

\* syn::parse_file(content).expect(..)
ExtractParse ==
    /\ op = "input_chain" /\ pc = "start"
    /\ \E parsed \in BOOLEAN :
         IF parsed
         THEN pc' = "items" /\ result' = result /\ item_idx' = 1
         ELSE pc' = "done" /\ result' = "panic" /\ item_idx' = item_idx
    /\ extracted_fields' = extracted_fields
    /\ ExtractUnchanged

\* one turn of the loop over parsed_code.items
ExtractItem ==
    /\ op = "input_chain" /\ pc = "items" /\ item_idx <= Len(content)
    /\ \E r \in { ExtractFromItem(content[item_idx], extracted_fields) } :
         IF r.kind = "panic"
         THEN /\ pc' = "done" /\ result' = "panic"
              /\ UNCHANGED << item_idx, extracted_fields >>
         ELSE /\ pc' = pc /\ result' = result
              /\ item_idx' = item_idx + 1
              /\ extracted_fields' = r.fields
    /\ ExtractUnchanged

\* extract_match_fields returns extracted_fields
ExtractReturn ==
    /\ op = "input_chain" /\ pc = "items" /\ item_idx > Len(content)
    /\ pc' = "done" /\ result' = "ok"
    /\ UNCHANGED << item_idx, extracted_fields >>
    /\ ExtractUnchanged

NextExtract == ExtractParse \/ ExtractItem \/ ExtractReturn

SpecExtract == InitExtract /\ [][NextExtract]_vars

\* ------------------------------------------------------- Manifest::write

\* what document.to_string() gives for the documents written
DocumentTexts == { "", "a = 1\n", "[workspace]\nmembers = []\n" }

\* the file at self.path beforehand: absent, empty, short, long
PreviousFiles ==
    { NoFile } \cup
    { [ exists |-> TRUE, data |-> d ] :
        d \in { "", "a = 1\n", "[package]\nname = \"demo\"\nversion = \"0.1.0\"\n" } }

\* how a call on the file ends
IoOutcomes == { "ok", "err" }

\* the state write_document is entered in
InitWrite ==
    /\ op = "write_document"
    /\ pc = "start"
    /\ result = "none"
    /\ template = "Substrate" /\ repo = DefaultRepo
    /\ fs = TakenFs
    /\ docs = NoDocs
    /\ srcs = NoSrcs
    /\ head = "none"
    /\ ran = <<>>
    /\ failed = {}
    /\ commit_id = ""
    /\ cargo_tomls = <<>>
    /\ idx = 0
    /\ fs0 = fs
    /\ docs0 = NoDocs
    /\ crate_spec = ""
    /\ returned = <<>>
    /\ calls = 0
    /\ srcs0 = NoSrcs
    /\ injection = "none"
    /\ injected = 0
    /\ content = <<>>
    /\ item_idx = 0
    /\ extracted_fields = <<>>
    /\ manifest_file \in PreviousFiles
    /\ manifest_file0 = manifest_file
    /\ bytes = ""
    /\ cursor = 0
    /\ NoCall

WriteUnchanged ==
    UNCHANGED << op, template, repo, fs, docs, srcs, head, ran, failed, gen_vars, fs0,
                 crate_spec, returned, calls, srcs0, injection, injected,
                 content, item_idx, extracted_fields, manifest_file0, util_vars >>

\* write_document: document.to_string().as_bytes()
WriteDocument ==
    /\ op = "write_document" /\ pc = "start"
    /\ \E toml \in DocumentTexts : bytes' = toml
    /\ pc' = "open" /\ result' = result
    /\ UNCHANGED << manifest_file, cursor >>
    /\ WriteUnchanged

\* OpenOptions: create(true), read(true), write(true), append(false); no
\* truncate. A file that is there is opened as it is, at position 0.
OpenCreate(file) == [ exists |-> TRUE, data |-> file.data ]

WriteOpen ==
    /\ op = "write_document" /\ pc = "open"
    /\ \E o \in IoOutcomes :
         IF o = "ok"
         THEN /\ manifest_file' = OpenCreate(manifest_file)
              /\ cursor' = 0
              /\ pc' = "seek" /\ result' = result
         ELSE /\ Finish("err")
              /\ UNCHANGED << manifest_file, cursor >>
    /\ UNCHANGED bytes
    /\ WriteUnchanged

\* file.seek(SeekFrom::Start(0))?
WriteSeek ==
    /\ op = "write_document" /\ pc = "seek"
    /\ \E o \in IoOutcomes :
         IF o = "ok"
         THEN cursor' = 0 /\ pc' = "write_all" /\ result' = result
         ELSE Finish("err") /\ cursor' = cursor
    /\ UNCHANGED << manifest_file, bytes >>
    /\ WriteUnchanged

\* data with b written over it at position pos
WriteAt(data, pos, b) ==
    SubSeq(data, 1, pos) \o b \o SubSeq(data, pos + Len(b) + 1, Len(data))

\* file.write_all(bytes)?: all of bytes, or an error after the first n of them
WriteAll ==
    /\ op = "write_document" /\ pc = "write_all"
    /\ \E n \in 0..Len(bytes) :
         /\ manifest_file' = [ manifest_file EXCEPT
                                 !.data = WriteAt(@, cursor, SubSeq(bytes, 1, n)) ]
         /\ cursor' = cursor + n
         /\ IF n = Len(bytes)
            THEN pc' = "set_len" /\ result' = result
            ELSE Finish("err")
    /\ UNCHANGED bytes
    /\ WriteUnchanged

RECURSIVE Zeros(_)
\* n zero bytes, a zero byte shown as "0"
Zeros(n) == IF n = 0 THEN "" ELSE "0" \o Zeros(n - 1)

\* a faulty variant: the length is left as it is
SetLenKept(data, n) == data

\* File::set_len: the data cut to n bytes, or filled up to n with zero bytes
SetLen(data, n) ==
    IF n <= Len(data) THEN SubSeq(data, 1, n) ELSE data \o Zeros(n - Len(data))

\* file.set_len(bytes.len() as u64)?
WriteSetLen ==
    /\ op = "write_document" /\ pc = "set_len"
    /\ \E o \in IoOutcomes :
         IF o = "ok"
         THEN /\ manifest_file' = [ manifest_file EXCEPT !.data = SetLen(@, Len(bytes)) ]
              /\ Finish("ok")
         ELSE /\ Finish("err")
              /\ UNCHANGED manifest_file
    /\ UNCHANGED << bytes, cursor >>
    /\ WriteUnchanged

NextWrite == WriteDocument \/ WriteOpen \/ WriteSeek \/ WriteAll \/ WriteSetLen

SpecWrite == InitWrite /\ [][NextWrite]_vars

\* ------------------------------------------- properties of the scaffolding

RootManifest == Dest \o <<"Cargo.toml">>

\* generate_node_template has returned Ok and mk_chain has not begun
Generated == pc = "mk_chain"

\* the for_each of generate_node_template is past the root manifest
RootProcessed ==
    \/ Generated
    \/ pc = "process" /\ \E i \in 1..(idx - 1) : cargo_tomls[i] = RootManifest

\* The manifests after the rewrite step is applied once more to the tree: the
\* manifests are discovered again and each is processed.
RewriteAgain ==
    LET found == GlobCargoTomls(fs, Dest)
    IN  [ p \in DOMAIN docs |->
            IF p \in Range(found)
            THEN ProcessManifest(p, docs[p], found, Remote, commit_id, Dest, fs)
            ELSE docs[p] ]

\* C1: the dependency rewrite is idempotent: applying the rewrite step
\* (replace_path_dependencies_with_git on every manifest, update_top_level
\* on the root) to the tree the first application produced changes no manifest.
C1_RewriteIdempotent == Generated => RewriteAgain = docs

\* C1 witness: a first application that rewrote a manifest has finished
C1_Witness ==
    /\ Generated
    /\ \E p \in Range(cargo_tomls) : docs[p].tables # docs0[p].tables
    /\ docs[RootManifest].workspace # docs0[RootManifest].workspace

\* what C2 says of one declaration: before the rewrite d0, after it d1, in a
\* manifest of directory dir
DeclAsClaimed(d0, d1, dir) ==
    IF KvHas(d0.kv, "path") /\ ~PathExists(fs, PathJoin(dir, KvGet(d0.kv, "path")))
    THEN /\ d1.name = d0.name
         /\ ~KvHas(d1.kv, "path")
         /\ KvHas(d1.kv, "git") /\ KvGet(d1.kv, "git") = <<Remote>>
         /\ KvHas(d1.kv, "rev") /\ KvGet(d1.kv, "rev") = <<commit_id>>
    ELSE d1 = d0

TableAsClaimed(t0, t1, dir) ==
    /\ Len(t0) = Len(t1)
    /\ \A i \in 1..Len(t0) : DeclAsClaimed(t0[i], t1[i], dir)

\* C2: after the rewrite every declaration with a `path` key whose path,
\* resolved against its manifest's directory, does not exist has lost `path`
\* and carries git = remote and rev = commit id; every other declaration is
\* unchanged (in each dependency table of each manifest and in the root's
\* workspace dependency table).
C2_EveryMissingPathBecomesGit ==
    Generated =>
      \A p \in Range(cargo_tomls) :
        /\ \A t \in Range(DepTables) :
             TableAsClaimed(docs0[p].tables[t], docs[p].tables[t], PathParent(p))
        /\ TableAsClaimed(docs0[p].workspace.dependencies,
                          docs[p].workspace.dependencies, PathParent(p))

\* C2, for the inline-table declarations alone (the ones the code looks at)
C2_InlineMissingPathBecomesGit ==
    Generated =>
      \A p \in Range(cargo_tomls) :
        /\ \A t \in Range(DepTables) :
             /\ Len(docs0[p].tables[t]) = Len(docs[p].tables[t])
             /\ \A i \in 1..Len(docs0[p].tables[t]) :
                  IF AsInlineTable(docs0[p].tables[t][i])
                  THEN DeclAsClaimed(docs0[p].tables[t][i], docs[p].tables[t][i],
                                     PathParent(p))
                  ELSE docs[p].tables[t][i] = docs0[p].tables[t][i]
        /\ TableAsClaimed(docs0[p].workspace.dependencies,
                          docs[p].workspace.dependencies, PathParent(p))

\* the panic setting of the release profile, <<>> when there is none
ReleasePanic(doc) ==
    LET rel == SelectSeq(doc.profile, LAMBDA e : e[1] = "release")
    IN  IF rel = <<>> \/ ~KvHas(rel[1][2], "panic") THEN <<>>
        ELSE KvGet(rel[1][2], "panic")

\* C3 as stated: once the rewriter has processed the root manifest, the
\* release profile's panic setting is the non-unwinding one (abort).
C3_ReleasePanicIsAbort ==
    RootProcessed => ReleasePanic(docs[RootManifest]) = Str("abort")

\* C3 amended: once the rewriter has processed the root manifest, the release
\* profile's panic setting is "unwind", and the profile table holds nothing else.
C3_ReleasePanicIsUnwind ==
    RootProcessed => /\ ReleasePanic(docs[RootManifest]) = Str("unwind")
                     /\ Len(docs[RootManifest].profile) = 1

\* C3 witness: the root manifest has been processed and had no such setting
C3_Witness ==
    /\ RootProcessed
    /\ ReleasePanic(docs0[RootManifest]) = <<>>
    /\ docs0[RootManifest].profile # <<>>

\* the manifests on disk under the root, the root's own excepted
MemberManifests ==
    { p \in DOMAIN fs : /\ IsPrefix(Dest, p) /\ fs[p] = "file"
                        /\ Last(p) = "Cargo.toml" /\ p # RootManifest }

\* C4: the workspace.members written into the root manifest are exactly the
\* directories of the manifests found under the root other than the root
\* manifest, relative to the root, in discovery order, without duplicates,
\* and the root itself is no member.
C4_MembersAreTheOtherManifests ==
    RootProcessed =>
      LET ws == docs[RootManifest].workspace
      IN  /\ ws.present /\ ws.hasMembers
          /\ Range(ws.members) =
               { SubSeq(p, Len(Dest) + 1, Len(p) - 1) : p \in MemberManifests }
          /\ Len(ws.members) = Cardinality(MemberManifests)
          /\ <<>> \notin Range(ws.members)
          /\ \A i, j \in 1..Len(ws.members) :
               i < j => PathLess(ws.members[i], ws.members[j])

\* C4 witness: members written over a different list, one member nested
C4_Witness ==
    /\ RootProcessed
    /\ docs[RootManifest].workspace.members
         = << <<"node">>, <<"pallets", "template">>, <<"runtime">> >>
    /\ docs0[RootManifest].workspace.members # docs[RootManifest].workspace.members
    /\ docs0[RootManifest].workspace.hasMembers

\* C5: when the destination exists, new_chain and new_contract return an
\* error before anything else: no command is spawned and no file or manifest
\* is created, changed or deleted.
C5_ExistingDestinationUntouched ==
    (op \in {"new_chain", "new_contract"} /\ PathExists(fs0, Dest)) =>
      /\ pc = "start" \/ (pc = "done" /\ result = "err")
      /\ ran = <<>>
      /\ fs = fs0 /\ docs = NoDocs /\ srcs = NoSrcs

\* C5 witness: new_chain has returned its error for an existing destination
C5_Witness ==
    /\ op = "new_chain" /\ PathExists(fs0, Dest)
    /\ pc = "done" /\ result = "err"

\* C6: whenever a spawned command exits with a nonzero status, the operation
\* has returned an error at once (it is done, with Err, in the very state
\* that records the exit).
C6_NonzeroExitAborts ==
    failed # {} => pc = "done" /\ result = "err"

\* -------------------------------------------------- properties of add_pallet

Adding == op = "add_pallet"

\* how many times sub occurs in s
Occurrences(s, sub) == Cardinality({ i \in 1..Len(s) : StartsAt(s, i, sub) })

\* the `impl <mod>::Config for Runtime` headers in the runtime source
ImplBlocks(text, mod_name) ==
    Occurrences(text, "impl " \o mod_name \o "::Config for Runtime")

\* the registration entries `<Pascal>: <mod>,` in the runtime source
Registrations(text, mod_name) ==
    Occurrences(text, to_pascal_case(mod_name) \o ": " \o mod_name \o ",")

\* C7: injection is idempotent: once add_pallet_to_runtime has returned Ok
\* twice for the crate, the runtime source holds exactly one registration
\* entry and exactly one `impl <mod>::Config for Runtime` block for it.
C7_TwiceInjectedOnce ==
    (Adding /\ pc = "done" /\ injected = 2) =>
      \A mod_name \in { to_snake_case(crate_spec) } :
        /\ ImplBlocks(srcs[RuntimeLib], mod_name) = 1
        /\ Registrations(srcs[RuntimeLib], mod_name) = 1

\* the current add_pallet found no implementation block for the crate in the
\* source it started from, and its add_pallet_to_runtime has returned Ok
InsertedSkeleton ==
    /\ Adding /\ injection = "ok"
    /\ pallet_trait_existing(srcs0[RuntimeLib], to_snake_case(crate_spec)) = NoMatch

\* the source now is the one the call started from up to where its
\* construct_runtime match began, then the skeleton and a blank line, then
\* construct_runtime
SkeletonBeforeRuntime ==
    \A orig \in { srcs0[RuntimeLib] } : \A mat \in { construct_runtime(orig) } :
    \A skel \in { pallet_trait_impl(to_snake_case(crate_spec)) \o "\n\n" } :
      /\ mat # NoMatch
      /\ SubSeq(srcs[RuntimeLib], 1, mat.start - 1 + Len(skel))
           = SubSeq(orig, 1, mat.start - 1) \o skel
      /\ StartsAt(srcs[RuntimeLib], mat.start + Len(skel), "construct_runtime!(")

\* one more than the number of lines before the construct_runtime match
LineOfRuntime ==
    \A orig \in { srcs0[RuntimeLib] } : \A mat \in { construct_runtime(orig) } :
      returned = << Len(Lines(SubSeq(orig, 1, mat.start - 1))) + 1 >>

\* C8 as stated: with no implementation block for the crate in the source,
\* the skeleton is inserted immediately before construct_runtime and no line
\* number is returned (None).
C8_SkeletonInsertedNoLine ==
    InsertedSkeleton => SkeletonBeforeRuntime /\ returned = <<>>

\* C8 amended: with no implementation block for the crate in the source, the
\* skeleton and a blank line are inserted immediately before construct_runtime
\* and the call returns Some(n), n being one more than the number of lines
\* that precede the construct_runtime match.
C8_SkeletonInsertedWithLine ==
    InsertedSkeleton => SkeletonBeforeRuntime /\ LineOfRuntime

\* C8 witness: a skeleton was inserted at line 7 of a source that had none
C8_Witness ==
    /\ InsertedSkeleton /\ calls = 1
    /\ returned = << 7 >>
    /\ ImplBlocks(srcs0[RuntimeLib], to_snake_case(crate_spec)) = 0
    /\ ImplBlocks(srcs[RuntimeLib], to_snake_case(crate_spec)) = 1

\* C9: when the runtime source the call started from has no construct_runtime
\* block, add_pallet_to_runtime returns an error and leaves the file as it
\* was, whether or not an implementation block for the crate was found.
C9_NoRuntimeNoWrite ==
    (Adding /\ injection # "none" /\ construct_runtime(srcs0[RuntimeLib]) = NoMatch) =>
      /\ injection = "err" /\ result = "err"
      /\ srcs = srcs0

\* C9 witness: the error came after the implementation block was found and
\* replaced in the buffer
C9_Witness ==
    /\ Adding /\ injection = "err" /\ pc = "done"
    /\ construct_runtime(srcs0[RuntimeLib]) = NoMatch
    /\ pallet_trait_existing(srcs0[RuntimeLib], to_snake_case(crate_spec)) # NoMatch

\* the `std` array of a runtime manifest
StdOf(doc) == KvGet(doc.features, "std")

\* add_pallet_std_to_manifest has returned Ok in the current add_pallet
StdAdded == Adding /\ (pc = "add_runtime" \/ injection # "none")

\* C10: add_pallet_std_to_manifest appends "<crate>/std" to the `std` array
\* if and only if no element is exactly that string, the elements already
\* there keep their values and order, and after any number of invocations
\* the array holds the string exactly once.
C10_StdAppendedOnce ==
    StdAdded =>
      LET before  == StdOf(docs0[RuntimeManifest])
          after   == StdOf(docs[RuntimeManifest])
          feature == crate_spec \o "/std"
      IN  /\ IF feature \in Range(before)
             THEN after = before
             ELSE after = Append(before, feature)
          /\ Cardinality({ i \in 1..Len(after) : after[i] = feature }) = 1

\* C10 witness: a second invocation found the feature the first had appended
\* after the two that were there
C10_Witness ==
    /\ StdAdded /\ calls = 1
    /\ StdOf(docs0[RuntimeManifest])
         = << "frame-support/std", "pallet-template/std", "pallet-foo/std" >>
    /\ StdOf(docs[RuntimeManifest]) = StdOf(docs0[RuntimeManifest])
    /\ crate_spec = "pallet-foo"

\* ------------------------------------------------ properties of the extractor

Extracting == op = "input_chain"

\* The identifiers each sample item is to yield, read off its text: the arms
\* of load_spec in an impl of a trait named SubstrateCli or of a top-level
\* load_spec, empty strings and bindings left out, paths lowercased.
NamesOf(item) ==
    IF item = ImplCli THEN << "dev", "local" >>
    ELSE IF item = ImplQualifiedCli THEN << "dev", "staging" >>
    ELSE IF item = FnLoadSpec THEN << "dev", "staging" >>
    ELSE <<>>

RECURSIVE NamesUpTo(_, _)
\* the identifiers of the first n items of a file, in file order
NamesUpTo(items, n) ==
    IF n = 0 THEN <<>> ELSE NamesUpTo(items, n - 1) \o NamesOf(items[n])

FromPool == \A i \in 1..Len(content) : content[i] \in ItemPool

\* C11: extract_match_fields yields the identifiers in first-seen order, the
\* duplicates kept: while it has not failed, what it has collected after the
\* first k items of the file is the identifiers of the first matching function
\* (a load_spec method of an impl of a trait whose last path segment is
\* SubstrateCli, or a top-level load_spec), then those of the second, and so on
\* in file order, arm by arm; and that is what it returns.
C11_CollectedInFileOrder ==
    (Extracting /\ FromPool /\ pc \in { "items", "done" } /\ result # "panic")
        => extracted_fields = NamesUpTo(content, item_idx - 1)

\* a file whose two matching functions both name "dev" has been extracted
C11_Witness ==
    /\ Extracting /\ pc = "done" /\ result = "ok"
    /\ content = << ImplCli, FnLoadSpec >>
    /\ extracted_fields = << "dev", "local", "dev", "staging" >>

\* the file is one load_spec whose body is `Ok(match id { <one arm> })`
OneArmFile ==
    /\ Len(content) = 1
    /\ content[1].kind = "fn" /\ content[1].name = "load_spec"
    /\ Len(content[1].block) = 1
    /\ content[1].block[1].kind = "expr" /\ content[1].block[1].expr.kind = "call"
    /\ Len(content[1].block[1].expr.args) = 1
    /\ content[1].block[1].expr.args[1].kind = "match"
    /\ Len(content[1].block[1].expr.args[1].arms) = 1

\* the pattern of that arm
ArmPattern == content[1].block[1].expr.args[1].arms[1]

RECURSIVE NamesOfCases(_, _)
\* what the sub-patterns from position i on yield one by one, joined left to
\* right; a sub-pattern that yields None joins nothing
NamesOfCases(cases, i) ==
    IF i > Len(cases) THEN <<>>
    ELSE extract_field_names(cases[i]).fields \o NamesOfCases(cases, i + 1)

RECURSIVE HasShape(_, _)
\* pat, or a sub-pattern of the or-patterns in it, has a shape in shapes
HasShape(pat, shapes) ==
    \/ pat.shape \in shapes
    \/ /\ pat.shape = "or"
       /\ \E i \in 1..Len(pat.cases) : HasShape(pat.cases[i], shapes)

\* the one arm of load_spec has been looked at
ArmExtracted == Extracting /\ pc = "done" /\ item_idx >= 1 /\ OneArmFile

\* C13 as stated: an arm pattern of any shape other than a string literal, a
\* path, an or-pattern or a plain binding (a wildcard, a tuple, a range, a
\* literal that is no string), at top level or nested in an or-pattern, makes
\* the extractor abort with a fatal error.
C13_OtherShapesAbort ==
    (ArmExtracted /\ HasShape(ArmPattern, { "wild", "tuple", "range", "lit_other" }))
        => result = "panic"

\* C13, amended: the extractor aborts with a fatal error exactly when the arm
\* pattern, or a sub-pattern of its or-patterns, is no literal, path,
\* or-pattern or plain binding (a wildcard, a tuple, a range); a literal that
\* is no string is let through and contributes nothing.
C13_NonLiteralShapesAbort ==
    ArmExtracted
        => (result = "panic" <=> HasShape(ArmPattern, { "wild", "tuple", "range" }))

\* a wildcard inside an or-pattern inside an or-pattern has stopped the
\* extraction
C13_Witness ==
    /\ ArmExtracted /\ result = "panic"
    /\ ArmPattern = PatOr(<< PatDev, PatOr(<< PatLitStr("local"), PatWild >>) >>)

\* ---------------------------------------------- properties of Manifest::write

\* C14: after write_document has succeeded, the file is there and its whole
\* content is the serialized document, byte for byte: nothing is left of a
\* longer previous content, a file that was absent has been created, nothing
\* is appended.
C14_FileIsTheDocument ==
    (op = "write_document" /\ pc = "done" /\ result = "ok")
        => (manifest_file.exists /\ manifest_file.data = bytes)

\* a document has been written over a longer file
C14_Witness ==
    /\ op = "write_document" /\ pc = "done" /\ result = "ok"
    /\ manifest_file0.exists
    /\ bytes # ""
    /\ Len(manifest_file0.data) > Len(bytes)
    /\ manifest_file.data = bytes

\* -------------------------------------------------- properties of mk_chain

NodeManifest == Dest \o << "node", "Cargo.toml" >>

\* t1 is t0 with the key old changed to new and nothing else: same length,
\* the entry that was under old is at the same position under new with the
\* same value, every other entry is where and what it was
RenamedInPlace(t0, t1, old, new) ==
    /\ Len(t1) = Len(t0)
    /\ \A i \in 1..Len(t0) :
         t1[i] = (IF t0[i].name = old THEN [ t0[i] EXCEPT !.name = new ] ELSE t0[i])

\* C15: when mk_chain succeeds, the rename of the runtime in the node
\* manifest's dependency table changes the key and nothing else: no entry is
\* left under the old name, the entry under `<name>-runtime` has the old value,
\* every other entry keeps key, value and relative position, and the renamed
\* entry is where the old one was.
C15_RuntimeRenamedInPlace ==
    [][ (pc = "mk_chain" /\ pc' = "done" /\ result' = "ok")
          => RenamedInPlace(docs[NodeManifest].tables["dependencies"],
                            docs'[NodeManifest].tables["dependencies"],
                            RuntimeName, ProjectName \o "-runtime") ]_vars

\* what does hold: the old key is gone, the new key carries the old value,
\* the other entries keep their order, and the renamed entry is the last one
RenamedToTheEnd(t0, t1, old, new) ==
    /\ ~HasEntry(t1, old)
    /\ Len(t1) = Len(t0)
    /\ Last(t1) = [ t0[EntryAt(t0, old)] EXCEPT !.name = new ]
    /\ Front(t1) = SelectSeq(t0, LAMBDA e : e.name # old)

C15_RuntimeRenamedAtTheEnd ==
    [][ (pc = "mk_chain" /\ pc' = "done" /\ result' = "ok")
          => RenamedToTheEnd(docs[NodeManifest].tables["dependencies"],
                             docs'[NodeManifest].tables["dependencies"],
                             RuntimeName, ProjectName \o "-runtime") ]_vars

\* ------------------------------------ properties of generate_node_template

\* neither the top of the remote repository nor the template directory has a
\* Cargo.toml: none is discovered at the destination root
NoRootDiscovered ==
    op = "new_chain" /\ "Cargo.toml" \notin repo.top /\ ~repo.hasRoot

\* C16: when no manifest is discovered at the destination root,
\* generate_node_template creates an empty one before the per-manifest
\* processing begins and processes it like a discovered one: while the
\* manifests are processed the root manifest is a file, began empty and is on
\* the list, and after success it exists and carries the workspace member
\* list (the directories of the other manifests) and the release profile.
C16_MissingRootCreatedAndProcessed ==
    (NoRootDiscovered /\ (pc = "process" \/ Generated)) =>
      /\ IsFile(fs, RootManifest)
      /\ docs0[RootManifest] = EmptyDoc
      /\ Cardinality({ i \in 1..Len(cargo_tomls) : cargo_tomls[i] = RootManifest }) = 1
      /\ Generated =>
           /\ docs[RootManifest].workspace.hasMembers
           /\ Range(docs[RootManifest].workspace.members) =
                { SubSeq(p, Len(Dest) + 1, Len(p) - 1) : p \in MemberManifests }
           /\ docs[RootManifest].profile = ReleaseProfile

\* generation has succeeded with a root manifest that was created, and it
\* lists the members
C16_Witness ==
    /\ NoRootDiscovered /\ Generated
    /\ docs0[RootManifest] = EmptyDoc
    /\ docs[RootManifest].workspace.members
         = << <<"node">>, <<"pallets", "template">>, <<"runtime">> >>

\* the dependency declarations of a manifest, of all its tables
DeclsOf(doc) ==
    UNION { Range(doc.tables[t]) : t \in Range(DepTables) }
    \cup Range(doc.workspace.dependencies)

\* the declarations of manifest p the rewriter has turned into git ones
Rewritten(p) ==
    { d \in DeclsOf(docs[p]) :
        /\ KvHas(d.kv, "git")
        /\ \E d0 \in DeclsOf(docs0[p]) : d0.name = d.name /\ KvHas(d0.kv, "path") }

\* C17: the commit id is read right after the clone and before every local
\* mutation: when it is read the last command run is the clone, the tree is
\* the tree as cloned and HEAD is the cloned commit; it is not read again; and
\* when generation has succeeded, the rev of every rewritten dependency is
\* that value, the cloned commit.
C17_RevIsTheClonedCommit ==
    [][ /\ (pc = "commit_id" /\ pc' = "sparse") =>
             /\ Last(ran) = "git clone"
             /\ fs = FsAdd(fs0, CloneTree(repo))
             /\ commit_id' = OriginHead
        /\ commit_id' # commit_id => pc = "commit_id"
        /\ (op = "new_chain" /\ pc' = "mk_chain") =>
             \A p \in Range(cargo_tomls') : \A d \in DeclsOf(docs'[p]) :
                KvHas(d.kv, "rev") => KvGet(d.kv, "rev") = << OriginHead >>
      ]_vars

\* generation has succeeded, a dependency has been rewritten with the cloned
\* commit, and HEAD is no longer that commit
C17_Witness ==
    /\ op = "new_chain" /\ Generated
    /\ commit_id = OriginHead /\ head # OriginHead
    /\ \E p \in Range(cargo_tomls) : \E d \in Rewritten(p) :
         KvGet(d.kv, "rev") = << OriginHead >>

\* the names of the entries directly inside the template directory
TemplateEntries == { p[1] : p \in { q \in DOMAIN TemplateFiles(repo) : Len(q) = 1 } }

\* every entry that was directly inside the template directory is directly
\* under the destination root
EntriesAtRoot ==
    \A p \in DOMAIN TemplateFiles(repo) :
       Len(p) = 1 => /\ Dest \o p \in DOMAIN fs
                     /\ fs[Dest \o p] = TemplateFiles(repo)[p]

\* of the regular files the clone put at the top, the ones still there are
\* allow-listed
SurvivorsAllowListed ==
    \A f \in repo.top \ TemplateEntries :
       IsFile(fs, Dest \o << f >>) => AllowListed(f)

\* C18: after generate_node_template has succeeded for the subpath P every
\* entry directly inside P is directly under the destination root, no
\* directory that is a component of P remains (also when P has more than one
\* component), and the only top-level regular files from before the move that
\* survive are allow-listed ones.
C18_FlatLayout ==
    (op = "new_chain" /\ Generated) =>
      /\ EntriesAtRoot
      /\ \A k \in 1..Len(repo.template_path) :
           Dest \o SubSeq(repo.template_path, 1, k) \notin DOMAIN fs
      /\ SurvivorsAllowListed

\* what does hold: the entries are at the root, the survivors are
\* allow-listed, and the directory P itself, its last component, is gone
C18_DeepestDirectoryRemoved ==
    (op = "new_chain" /\ Generated) =>
      /\ EntriesAtRoot
      /\ Dest \o repo.template_path \notin DOMAIN fs
      /\ SurvivorsAllowListed

\* ----------------------------------- properties of add_pallet_to_runtime

\* where `impl <mod>::Config for Runtime {` begins in text, 0 if nowhere
HeaderStart(text, mod_name) ==
    Find(text, "impl " \o mod_name \o "::Config for Runtime {", 1)

\* the position of the header's opening brace
HeaderBrace(text, mod_name) ==
    HeaderStart(text, mod_name) + Len("impl " \o mod_name \o "::Config for Runtime {") - 1

RECURSIVE MatchingBrace(_, _, _)
\* the position of the brace that closes the one open at depth `depth` when
\* the text is read from position i on; 0 if the text ends first
MatchingBrace(text, i, depth) ==
    Bind({ j \in i..Len(text) : Char(text, j) = "{" \/ Char(text, j) = "}" },
         LAMBDA braces :
           IF braces = {} THEN 0
           ELSE Bind(SetMin(braces), LAMBDA j :
                     IF Char(text, j) = "{" THEN MatchingBrace(text, j + 1, depth + 1)
                     ELSE IF depth = 1 THEN j
                     ELSE MatchingBrace(text, j + 1, depth - 1)))

\* the current add_pallet began with an implementation block for the crate in
\* the source, and its add_pallet_to_runtime has returned Ok
ReplacedSkeleton ==
    /\ Adding /\ injection = "ok"
    /\ HeaderStart(srcs0[RuntimeLib], to_snake_case(crate_spec)) # 0

\* The source now is the one the call started from with the block, from its
\* header through the brace at position close, replaced by the skeleton: what
\* preceded the block, the skeleton, what followed the block up to
\* construct_runtime; and the line returned is the one the block began on.
BlockReplaced(orig, start, close) ==
    \A skel \in { pallet_trait_impl(to_snake_case(crate_spec)) } :
    \A rest \in { SubSeq(orig, close + 1, Find(orig, "construct_runtime!(", 1) - 1) } :
      /\ close # 0
      /\ StartsAt(srcs[RuntimeLib], 1, SubSeq(orig, 1, start - 1) \o skel \o rest)
      /\ StartsAt(srcs[RuntimeLib], start + Len(skel) + Len(rest), "construct_runtime!(")
      /\ returned = << Len(Lines(SubSeq(orig, 1, start - 1))) + 1 >>

\* C19: when the source holds `impl <mod>::Config for Runtime { ... }`,
\* add_pallet_to_runtime replaces the whole block, from the header through
\* the closing brace that matches the header's opening brace (also when the
\* body has braces of its own), with the skeleton, and returns the 1-based
\* line on which the original block began.
C19_WholeBlockReplaced ==
    ReplacedSkeleton =>
      \A orig \in { srcs0[RuntimeLib] } : \A mod_name \in { to_snake_case(crate_spec) } :
        BlockReplaced(orig, HeaderStart(orig, mod_name),
                      MatchingBrace(orig, HeaderBrace(orig, mod_name) + 1, 1))

\* what does hold: a first block whose body is not empty is replaced from
\* the header through the first closing brace after the header
C19_ReplacedToFirstClosingBrace ==
    (ReplacedSkeleton
       /\ pallet_trait_existing(srcs0[RuntimeLib], to_snake_case(crate_spec)).start
            = HeaderStart(srcs0[RuntimeLib], to_snake_case(crate_spec))) =>
      \A orig \in { srcs0[RuntimeLib] } : \A mod_name \in { to_snake_case(crate_spec) } :
        BlockReplaced(orig, HeaderStart(orig, mod_name),
                      Find(orig, "}", HeaderBrace(orig, mod_name)))

\* the position of the brace that opens the body of construct_runtime
BodyOpen(text) == Find(text, "{", Find(text, "construct_runtime!(", 1))

\* the body of construct_runtime: what stands between its braces
BodyOf(text) ==
    SubSeq(text, BodyOpen(text) + 1, MatchingBrace(text, BodyOpen(text) + 1, 1) - 1)

\* s is nothing but blanks, tabs and line breaks
Blank(s) == \A i \in 1..Len(s) : Char(s, i) \in { " ", "\t", "\n", "\r" }

\* the current add_pallet began with a construct_runtime body no line of which
\* names the crate's module, and its add_pallet_to_runtime has returned Ok
RegisteredAnew ==
    /\ Adding /\ injection = "ok"
    /\ ~Contains(BodyOf(srcs0[RuntimeLib]), to_snake_case(crate_spec))

\* body1 is body0 with the entry put in before its closing delimiter: taking
\* the entry out gives body0 back, and nothing but white space stands between
\* the entry and the end of the body
EntryLast(body0, body1, entry) ==
    \A i \in { Find(body1, entry, 1) } :
      /\ i # 0
      /\ SubSeq(body1, 1, i - 1) \o SubSeq(body1, i + Len(entry), Len(body1)) = body0
      /\ Blank(SubSeq(body1, i + Len(entry), Len(body1)))

\* C20: when no line of the construct_runtime body names the component, the
\* registration entry is inserted just before the body's closing delimiter:
\* it is the last entry and all of the original body text precedes it,
\* unchanged and unsplit, whatever the white space of the body (tabs, spaces,
\* a body on a single line).
C20_EntryInsertedLast ==
    RegisteredAnew =>
      EntryLast(BodyOf(srcs0[RuntimeLib]), BodyOf(srcs[RuntimeLib]),
                pallet_config(to_snake_case(crate_spec)))

\* what does hold: it is so when the closing delimiter of the body is
\* preceded by two characters of white space at least
C20_EntryInsertedLastAfterWhiteSpace ==
    (RegisteredAnew
       /\ \A body \in { BodyOf(srcs0[RuntimeLib]) } :
            Len(body) >= 2 /\ Blank(SubSeq(body, Len(body) - 1, Len(body)))) =>
      EntryLast(BodyOf(srcs0[RuntimeLib]), BodyOf(srcs[RuntimeLib]),
                pallet_config(to_snake_case(crate_spec)))

\* the text after the first step of add_pallet_to_runtime (the skeleton
\* put in) on the source the current call started from
AfterSkeleton ==
    IF pallet_trait_existing(srcs0[RuntimeLib], to_snake_case(crate_spec)) # NoMatch
    THEN ReplaceImpl(srcs0[RuntimeLib], to_snake_case(crate_spec)).buffer
    ELSE InsertImpl(srcs0[RuntimeLib], to_snake_case(crate_spec)).buffer

\* the current add_pallet_to_runtime has returned Ok and found a line of the
\* construct_runtime body that names the crate's module
RegisteredOverLine ==
    /\ Adding /\ injection = "ok"
    /\ Contains(BodyOf(srcs0[RuntimeLib]), to_snake_case(crate_spec))

\* text1 is text0 with the first line of the construct_runtime body that
\* contains mod_name replaced by entry, and nothing else changed
OneLineReplaced(text0, text1, mod_name, entry) ==
    \A ls0 \in { Lines(BodyOf(text0)) } : \A ls1 \in { Lines(BodyOf(text1)) } :
    \A n \in { SetMin({ k \in 1..Len(ls0) : Contains(ls0[k], mod_name) }) } :
      /\ Len(ls1) = Len(ls0)
      /\ ls1[n] = entry
      /\ \A k \in 1..Len(ls0) : k # n => ls1[k] = ls0[k]
      /\ SubSeq(text1, 1, BodyOpen(text1)) = SubSeq(text0, 1, BodyOpen(text0))
      /\ Len(text1) - Len(entry) = Len(text0) - Len(ls0[n])

\* C21: when a line of the construct_runtime body names the component,
\* add_pallet_to_runtime replaces that line, and that line alone, with the
\* registration entry `<Pascal>: <identifier>,`: the text written differs from
\* the text after the first step in that line only.
C21_OnlyThatLineReplaced ==
    RegisteredOverLine =>
      \A modified \in { AfterSkeleton } :
        OneLineReplaced(modified, srcs[RuntimeLib], to_snake_case(crate_spec),
                        Tail(pallet_config(to_snake_case(crate_spec))))

\* what does hold: it is so when the text of that line stands in the body
\* once
C21_OnlyThatLineReplacedWhenUnique ==
    (RegisteredOverLine
       /\ \A modified \in { AfterSkeleton } :
          \A body \in { BodyOf(modified) } : \A ls \in { Lines(body) } :
          \A n \in { SetMin({ k \in 1..Len(ls) :
                                Contains(ls[k], to_snake_case(crate_spec)) }) } :
          \A line \in { ls[n] } :
            Occurrences(body, line) = 1) =>
      \A modified \in { AfterSkeleton } :
        OneLineReplaced(modified, srcs[RuntimeLib], to_snake_case(crate_spec),
                        Tail(pallet_config(to_snake_case(crate_spec))))

\* C22: per arm, a string literal yields its value (nothing when it is
\* empty), a path yields its last segment in lower case, a plain binding
\* yields nothing; and the arms "dev", "local" | "local-testnet",
\* other::PRESET and a last catch-all binding yield dev, local, local-testnet,
\* preset and nothing else.
C22_ArmsMapToNames ==
    /\ (ArmExtracted /\ ArmPattern.shape = "lit_str") =>
         /\ result = "ok"
         /\ extracted_fields =
              (IF ArmPattern.text[1] = "" THEN <<>> ELSE << ArmPattern.text[1] >>)
    /\ (ArmExtracted /\ ArmPattern = PatPath(<< "chain_spec", "STAGING" >>)) =>
         result = "ok" /\ extracted_fields = << "staging" >>
    /\ (ArmExtracted /\ ArmPattern.shape = "ident") =>
         result = "ok" /\ extracted_fields = <<>>
    /\ (Extracting /\ pc = "done" /\ item_idx >= 1
          /\ content = << ItemFn("load_spec", BlockPreset) >>) =>
         /\ result = "ok"
         /\ extracted_fields = << "dev", "local", "local-testnet", "preset" >>

\* the four arms have been extracted
C22_Witness ==
    /\ Extracting /\ pc = "done" /\ result = "ok"
    /\ content = << ItemFn("load_spec", BlockPreset) >>
    /\ extracted_fields = << "dev", "local", "local-testnet", "preset" >>

\* d1 is d0 turned into a local declaration under the name new: no git, no
\* rev, path = runtime, every other key as it was
MadeLocal(d0, d1, new) ==
    /\ d1.name = new /\ d1.form = d0.form
    /\ ~KvHas(d1.kv, "git") /\ ~KvHas(d1.kv, "rev")
    /\ KvHas(d1.kv, "path") /\ KvGet(d1.kv, "path") = << "runtime" >>
    /\ KvRemove(d1.kv, "path")
         = KvRemove(KvRemove(KvRemove(d0.kv, "path"), "git"), "rev")

\* C23: when mk_chain succeeds and the root manifest's workspace dependency
\* table had an entry for the old runtime name, the table has no entry under
\* the old name and one under `<name>-runtime` with no git, no rev and path =
\* the runtime directory relative to the root, its other keys, the other
\* entries and the rest of the manifest being as they were; when it had no
\* such entry, or no such table, the root manifest is as it was.
C23_RootRuntimeMadeLocal ==
    [][ (pc = "mk_chain" /\ pc' = "done" /\ result' = "ok") =>
          \A r0 \in { docs[RootManifest] } : \A r1 \in { docs'[RootManifest] } :
          \A new \in { ProjectName \o "-runtime" } :
            IF r0.workspace.present /\ HasEntry(r0.workspace.dependencies, RuntimeName)
            THEN /\ ~HasEntry(r1.workspace.dependencies, RuntimeName)
                 /\ HasEntry(r1.workspace.dependencies, new)
                 /\ MadeLocal(r0.workspace.dependencies[
                                  EntryAt(r0.workspace.dependencies, RuntimeName)],
                              r1.workspace.dependencies[
                                  EntryAt(r1.workspace.dependencies, new)], new)
                 /\ SelectSeq(r1.workspace.dependencies, LAMBDA e : e.name # new)
                      = SelectSeq(r0.workspace.dependencies,
                                  LAMBDA e : e.name # RuntimeName)
                 /\ [ r1 EXCEPT !.workspace.dependencies = <<>> ]
                      = [ r0 EXCEPT !.workspace.dependencies = <<>> ]
            ELSE r1 = r0 ]_vars

\* mk_chain has succeeded on a root manifest whose runtime entry the rewriter
\* had pinned to the remote, and the entry is local now
C23_Witness ==
    /\ op = "new_chain" /\ pc = "done" /\ result = "ok"
    /\ \E d \in Range(docs[RootManifest].workspace.dependencies) :
         /\ d.name = ProjectName \o "-runtime"
         /\ KvGet(d.kv, "path") = << "runtime" >> /\ ~KvHas(d.kv, "git")
    /\ \E d \in Range(docs0[RootManifest].workspace.dependencies) :
         /\ d.name = RuntimeName
         /\ ~PathExists(fs, Dest \o KvGet(d.kv, "path"))

\* the package an element of a feature array refers to: what precedes its `/`
PackageOf(element) ==
    Bind(Find(element, "/", 1), LAMBDA slash :
         IF slash = 0 THEN element ELSE SubSeq(element, 1, slash - 1))

\* every element of the node manifest's feature arrays, before and after a
\* successful mk_chain, satisfies R(before, after)
FeaturesRelated(R(_, _)) ==
       (pc = "mk_chain" /\ pc' = "done" /\ result' = "ok") =>
          \A f0 \in { docs[NodeManifest].features } :
          \A f1 \in { docs'[NodeManifest].features } :
            /\ Len(f1) = Len(f0)
            /\ \A i \in 1..Len(f0) :
                 /\ f1[i][1] = f0[i][1]
                 /\ Len(f1[i][2]) = Len(f0[i][2])
                 /\ \A j \in 1..Len(f0[i][2]) : R(f0[i][2][j], f1[i][2][j])

\* C24: in the node manifest's feature arrays mk_chain changes exactly the
\* elements that refer to the old runtime package (`<old runtime name>/...`),
\* substituting only the name; an element referring to a different package,
\* one whose name contains the old runtime name included, is left as it was.
C24_OnlyRuntimeReferencesRenamed ==
    [][ FeaturesRelated(LAMBDA e0, e1 :
          IF PackageOf(e0) = RuntimeName
          THEN e1 = (ProjectName \o "-runtime")
                      \o SubSeq(e0, Len(RuntimeName) + 1, Len(e0))
          ELSE e1 = e0) ]_vars

\* what does hold: a reference to the old runtime package is renamed, and an
\* element in which the old name does not occur is left as it was
C24_ReferencesRenamedOthersWithoutTheNameKept ==
    [][ FeaturesRelated(LAMBDA e0, e1 :
          /\ PackageOf(e0) = RuntimeName
               => e1 = (ProjectName \o "-runtime")
                         \o SubSeq(e0, Len(RuntimeName) + 1, Len(e0))
          /\ ~Contains(e0, RuntimeName) => e1 = e0) ]_vars

\* the source files below a package's directory
SourcesOf(package) == { q \in DOMAIN srcs : IsPrefix(Dest \o << package >>, q) }

\* the package's old identifier occurred in the files of its directory and
\* the new one stands for it now
RenamedInSources(package, old, new) ==
    \A q \in SourcesOf(package) :
      /\ ~Contains(srcs'[q], to_snake_case(old))
      /\ Contains(srcs[q], to_snake_case(old)) => Contains(srcs'[q], to_snake_case(new))

\* C25: after mk_chain has succeeded, in every source file below the node
\* directory the old node identifier has given way to `<name>_node`, and in
\* every source file below the runtime directory the old runtime identifier
\* has given way to `<name>_runtime`.
C25_BothPackagesRenamedInSources ==
    [][ (pc = "mk_chain" /\ pc' = "done" /\ result' = "ok") =>
          /\ RenamedInSources("node", NodeName, ProjectName \o "-node")
          /\ RenamedInSources("runtime", RuntimeName, ProjectName \o "-runtime")
      ]_vars

\* what does hold: the files below the node directory have the old runtime
\* identifier replaced by `<name>_runtime`, and no other file is changed
C25_RuntimeRenamedInNodeSources ==
    [][ (pc = "mk_chain" /\ pc' = "done" /\ result' = "ok") =>
          /\ DOMAIN srcs' = DOMAIN srcs
          /\ \A q \in DOMAIN srcs :
               srcs'[q] = IF q \in SourcesOf("node")
                          THEN ReplaceAll(srcs[q], to_snake_case(RuntimeName),
                                          to_snake_case(ProjectName \o "-runtime"))
                          ELSE srcs[q] ]_vars

\* ---------------------------------------------------------- to_snake_case

\* the longest input, in words
MaxWords == 3

\* the lower-case words the inputs are made of
Words == { "hello", "world" }

\* what stands between two words: an underscore, a hyphen, a space, or
\* nothing (the next word then begins with a capital)
Separators == { "_", "-", " ", "" }

\* an input: its words, the separator written between them, and the words
\* written with a capital first letter
SnakeInputs ==
    { [ words |-> w, sep |-> s, capital |-> c ] :
        w \in UNION { [ 1..n -> Words ] : n \in 1..MaxWords },
        s \in Separators, c \in SUBSET (1..MaxWords) } 

\* the inputs that are well formed: capitals only on words there are, and a
\* capital on every word that nothing separates from the one before
WellFormed(input) ==
    /\ input.capital \subseteq 1..Len(input.words)
    /\ input.sep = "" => 2..Len(input.words) \subseteq input.capital

Capitalised(word) == ToUpper(Char(word, 1)) \o SubSeq(word, 2, Len(word))

RECURSIVE WrittenFrom(_, _)
\* the text of an input from its word i on
WrittenFrom(input, i) ==
    IF i > Len(input.words) THEN ""
    ELSE (IF i > 1 THEN input.sep ELSE "")
         \o (IF i \in input.capital THEN Capitalised(input.words[i])
             ELSE input.words[i])
         \o WrittenFrom(input, i + 1)

Written(input) == WrittenFrom(input, 1)

\* the state to_snake_case is called in
InitSnake ==
    /\ op = "to_snake_case"
    /\ pc = "start"
    /\ result = "none"
    /\ template = "Substrate" /\ repo = DefaultRepo
    /\ fs = TakenFs
    /\ docs = NoDocs
    /\ srcs = NoSrcs
    /\ head = "none"
    /\ ran = <<>>
    /\ failed = {}
    /\ commit_id = ""
    /\ cargo_tomls = <<>>
    /\ idx = 0
    /\ fs0 = fs
    /\ docs0 = NoDocs
    /\ crate_spec = ""
    /\ returned = <<>>
    /\ calls = 0
    /\ srcs0 = NoSrcs
    /\ injection = "none"
    /\ injected = 0
    /\ content = <<>>
    /\ item_idx = 0
    /\ extracted_fields = <<>>
    /\ manifest_file = NoFile
    /\ manifest_file0 = NoFile
    /\ bytes = "" /\ cursor = 0
    /\ call_args \in { input \in SnakeInputs : WellFormed(input) }
    /\ field_item = <<>>
    /\ ret = ""

UtilUnchanged ==
    UNCHANGED << op, template, repo, fs, docs, srcs, head, ran, failed, gen_vars, fs0,
                 crate_spec, returned, calls, srcs0, injection, injected,
                 content, item_idx, extracted_fields, write_vars, call_args >>

\* to_snake_case(string) returns
SnakeCall ==
    /\ op = "to_snake_case" /\ pc = "start"
    /\ ret' = to_snake_case(Written(call_args))
    /\ pc' = "done" /\ result' = "ok"
    /\ UNCHANGED field_item
    /\ UtilUnchanged

NextSnake == SnakeCall

SpecSnake == InitSnake /\ [][NextSnake]_vars

\* ---------------------------------------------- properties of to_snake_case

RECURSIVE JoinedFrom(_, _, _)
JoinedFrom(words, sep, i) ==
    IF i > Len(words) THEN ""
    ELSE (IF i > 1 THEN sep ELSE "") \o words[i] \o JoinedFrom(words, sep, i + 1)

\* the words joined by single underscores
SnakeOf(words) == JoinedFrom(words, "_", 1)

\* to_snake_case has returned
SnakeReturned == op = "to_snake_case" /\ pc = "done"

\* C26: whatever separates the words of the input (an underscore, a hyphen,
\* a space, or the capital the next word begins with) and whichever of them
\* begin with a capital, to_snake_case returns the lower-case words joined by
\* single underscores.
C26_SeparatorsAreEquivalent ==
    SnakeReturned => ret = SnakeOf(call_args.words)

\* what does hold: the same, for the inputs in which no underscore is
\* followed by a lower-case letter
C26_EquivalentButUnderscoreBeforeLowerCase ==
    (/\ SnakeReturned
     /\ call_args.sep = "_" => 2..Len(call_args.words) \subseteq call_args.capital)
    => ret = SnakeOf(call_args.words)

\* an underscore before a lower-case letter is dropped and the words run
\* together
C26_UnderscoreDropped ==
    (/\ SnakeReturned
     /\ call_args.sep = "_")
    => ret = to_snake_case(JoinedFrom(
                [ i \in 1..Len(call_args.words) |->
                    IF i \in call_args.capital
                    THEN Capitalised(call_args.words[i]) ELSE call_args.words[i] ],
                "", 1))

\* ------------------------------------------------ from_manifest_or_default

\* toml_edit items: a string, an integer, a table ([header]) and an inline
\* table ({ .. }); the entries of the last two are <<key, item>> pairs
ItemString(s) == [ kind |-> "string", value |-> s, entries |-> <<>> ]

ItemInteger == [ kind |-> "integer", value |-> "1", entries |-> <<>> ]

ItemTable(kv) == [ kind |-> "table", value |-> "", entries |-> kv ]

ItemInlineTable(kv) == [ kind |-> "inline", value |-> "", entries |-> kv ]

\* Item::as_table gives Some
IsTable(item) == item.kind = "table"

\* Item::as_str gives Some
IsStr(item) == item.kind = "string"

RECURSIVE SplitFrom(_, _, _)
\* str::split(sep) of what s holds from position from on
SplitFrom(s, sep, from) ==
    Bind(Find(s, sep, from), LAMBDA j :
         IF j = 0 THEN << SubSeq(s, from, Len(s)) >>
         ELSE << SubSeq(s, from, j - 1) >> \o SplitFrom(s, sep, j + 1))

Split(s, sep) == SplitFrom(s, sep, 1)

RECURSIVE FindFieldFrom(_, _, _)
\* the loop of find_field_recursive at segment i, with its current table
FindFieldFrom(current, fields, i) ==
    IF i > Len(fields) THEN <<>>
    ELSE IF KvHas(current.entries, fields[i])
         THEN Bind(KvGet(current.entries, fields[i]), LAMBDA value :
                   IF IsTable(value) THEN FindFieldFrom(value, fields, i + 1)
                   ELSE << value >>)
         ELSE <<>>

\* <<>> for None, <<item>> for Some(item)
find_field_recursive(table, field_path) ==
    FindFieldFrom(table, Split(field_path, "."), 1)

\* .and_then(|v| v.as_str()).unwrap_or(default)
StrOrDefault(option, default) ==
    IF option # <<>> /\ IsStr(option[1]) THEN option[1].value ELSE default

\* what Substrate.toml may hold under `paths.node`
NodeItems ==
    { ItemString("n"), ItemInteger,
      ItemTable(<< << "dir", ItemString("d") >> >>),
      ItemInlineTable(<< << "dir", ItemString("d") >> >>) }

\* what it may hold under `paths`
PathsItems ==
    { ItemString("p"), ItemInteger, ItemTable(<<>>),
      ItemInlineTable(<< << "node", ItemString("n") >> >>) }
    \cup { ItemTable(<< << "node", item >> >>) : item \in NodeItems }

\* the manifest argument: <<>> for None, <<document>> for Some(document)
ManifestOptions ==
    { <<>>, << ItemTable(<< << "type", ItemString("chain") >> >>) >> }
    \cup { << ItemTable(<< << "type", ItemString("chain") >>, << "paths", item >> >>) >> :
             item \in PathsItems }

FieldPaths == { "type", "paths", "paths.node", "paths.runtime", "paths.node.dir" }

Defaults == { "node", "" }

\* the state from_manifest_or_default is called in
InitConfig ==
    /\ op = "from_manifest_or_default"
    /\ pc = "start"
    /\ result = "none"
    /\ template = "Substrate" /\ repo = DefaultRepo
    /\ fs = TakenFs
    /\ docs = NoDocs
    /\ srcs = NoSrcs
    /\ head = "none"
    /\ ran = <<>>
    /\ failed = {}
    /\ commit_id = ""
    /\ cargo_tomls = <<>>
    /\ idx = 0
    /\ fs0 = fs
    /\ docs0 = NoDocs
    /\ crate_spec = ""
    /\ returned = <<>>
    /\ calls = 0
    /\ srcs0 = NoSrcs
    /\ injection = "none"
    /\ injected = 0
    /\ content = <<>>
    /\ item_idx = 0
    /\ extracted_fields = <<>>
    /\ manifest_file = NoFile
    /\ manifest_file0 = NoFile
    /\ bytes = "" /\ cursor = 0
    /\ call_args \in [ manifest : ManifestOptions, field_path : FieldPaths,
                       default : Defaults ]
    /\ field_item = <<>>
    /\ ret = ""

\* manifest is None: the default
ConfigNoManifest ==
    /\ op = "from_manifest_or_default" /\ pc = "start"
    /\ call_args.manifest = <<>>
    /\ ret' = call_args.default
    /\ pc' = "done" /\ result' = "ok"
    /\ UNCHANGED field_item
    /\ UtilUnchanged

\* manifest is Some(doc): find_field_recursive(doc.as_table(), field_path)
ConfigFind ==
    /\ op = "from_manifest_or_default" /\ pc = "start"
    /\ call_args.manifest # <<>>
    /\ field_item' = find_field_recursive(call_args.manifest[1], call_args.field_path)
    /\ pc' = "found" /\ result' = result
    /\ UNCHANGED ret
    /\ UtilUnchanged

\* .and_then(|v| v.as_str()).unwrap_or(default), and the parse of it
ConfigOption ==
    /\ op = "from_manifest_or_default" /\ pc = "found"
    /\ ret' = StrOrDefault(field_item, call_args.default)
    /\ pc' = "done" /\ result' = "ok"
    /\ UNCHANGED field_item
    /\ UtilUnchanged

NextConfig == ConfigNoManifest \/ ConfigFind \/ ConfigOption

SpecConfig == InitConfig /\ [][NextConfig]_vars

\* ------------------------------------- properties of find_field_recursive

RECURSIVE LeafFrom(_, _, _)
\* the item that is not a table at exactly the path fields[i..] below the
\* table, <<>> if a segment is missing, a segment before the last names
\* what is not a table, or the path ends on a table
LeafFrom(table, fields, i) ==
    IF ~KvHas(table.entries, fields[i]) THEN <<>>
    ELSE Bind(KvGet(table.entries, fields[i]), LAMBDA value :
              IF i = Len(fields) THEN (IF IsTable(value) THEN <<>> ELSE << value >>)
              ELSE IF IsTable(value) THEN LeafFrom(value, fields, i + 1)
              ELSE <<>>)

LeafAt(table, field_path) == LeafFrom(table, Split(field_path, "."), 1)

\* find_field_recursive has returned
FieldSought ==
    op = "from_manifest_or_default" /\ pc \in { "found", "done" }
    /\ call_args.manifest # <<>>

\* C27: find_field_recursive returns the item that is not a table at exactly
\* the requested dotted path, and nothing when a segment is missing, the path
\* ends on a table or a segment before the last names what is not a table;
\* when it returns nothing from_manifest_or_default yields the default.
C27_OnlyTheLeafAtThePath ==
    FieldSought =>
      \A leaf \in { LeafAt(call_args.manifest[1], call_args.field_path) } :
        /\ field_item = leaf
        /\ (pc = "done" /\ leaf = <<>>) => ret = call_args.default

\* what does hold: the same for the paths no proper prefix of which names
\* what is not a table
C27_LeafUnlessCutShort ==
    (/\ FieldSought
     /\ \A fields \in { Split(call_args.field_path, ".") } :
          \A n \in 1..(Len(fields) - 1) :
            \A item \in { LeafFrom(call_args.manifest[1], SubSeq(fields, 1, n), 1) } :
              item = <<>>)
    => \A leaf \in { LeafAt(call_args.manifest[1], call_args.field_path) } :
         /\ field_item = leaf
         /\ (pc = "done" /\ leaf = <<>>) => ret = call_args.default

\* and for the others: the first item on the path that is not a table is
\* returned, and from_manifest_or_default yields it if it is a string
C27_CutShortAtFirstNonTable ==
    FieldSought =>
      \A fields \in { Split(call_args.field_path, ".") } :
        \A n \in 1..(Len(fields) - 1) :
          \A item \in { LeafFrom(call_args.manifest[1], SubSeq(fields, 1, n), 1) } :
            item # <<>> =>
              /\ field_item = item
              /\ (pc = "done" /\ IsStr(item[1])) => ret = item[1].value

\* the module a line of the construct_runtime body registers, "" if the line
\* is not an entry `<Name>: <module>,`
ModuleOf(line) ==
    Bind(Find(line, ": ", 1), LAMBDA colon :
         IF colon = 0 \/ Contains(line, "//") THEN ""
         ELSE Bind(Find(line, ",", colon), LAMBDA comma :
                   IF comma = 0 THEN "" ELSE SubSeq(line, colon + 2, comma - 1)))

\* the entries of the body of text that register a module other than mod_name
OtherEntries(text, mod_name) ==
    { line \in Range(Lines(BodyOf(text))) : ModuleOf(line) \notin { "", mod_name } }

\* C28: add_pallet_to_runtime for a component leaves the registration of
\* every other component as it was, one whose identifier contains the
\* component's identifier included: its line stands unchanged in the
\* construct_runtime body afterwards.
C28_OtherRegistrationsKept ==
    (Adding /\ injection = "ok") =>
      OtherEntries(srcs0[RuntimeLib], to_snake_case(crate_spec))
        \subseteq Range(Lines(BodyOf(srcs[RuntimeLib])))

\* what does hold: it is so when no line registering another component
\* contains the component's identifier
C28_OtherRegistrationsKeptUnlessNamesNest ==
    (/\ Adding /\ injection = "ok"
     /\ \A line \in OtherEntries(srcs0[RuntimeLib], to_snake_case(crate_spec)) :
          ~Contains(line, to_snake_case(crate_spec)))
    => OtherEntries(srcs0[RuntimeLib], to_snake_case(crate_spec))
         \subseteq Range(Lines(BodyOf(srcs[RuntimeLib])))

SubstrateManifest == Dest \o << "Substrate.toml" >>

\* the node and runtime manifests of the state after the step carry the new
\* package names
BothRenamed ==
    /\ { NodeManifest, RuntimeManifest } \subseteq DOMAIN docs'
    /\ docs'[NodeManifest].package = Str(ProjectName \o "-node")
    /\ docs'[RuntimeManifest].package = Str(ProjectName \o "-runtime")

\* C29: mk_chain writes Substrate.toml (type = chain) last: when it returns
\* an error or aborts before the manifests are renamed no Substrate.toml
\* exists, whenever Substrate.toml exists afterwards the node and runtime
\* manifests carry the new package names, and when it returns Ok
\* Substrate.toml exists with type = chain.
C29_DescriptorWrittenLast ==
    [][ (pc = "mk_chain" /\ pc' = "done") =>
          /\ (result' # "ok" /\ ~BothRenamed) => ~PathExists(fs', SubstrateManifest)
          /\ PathExists(fs', SubstrateManifest) => BothRenamed
          /\ result' = "ok" =>
               /\ PathExists(fs', SubstrateManifest)
               /\ docs'[SubstrateManifest].type = Str("chain") ]_vars

\* mk_chain has failed between the write of the node manifest and that of
\* the runtime manifest, and there is no Substrate.toml
C29_Witness ==
    /\ op = "new_chain" /\ pc = "done" /\ result = "err"
    /\ PathExists(fs, NodeManifest)
    /\ docs[NodeManifest].package = Str(ProjectName \o "-node")
    /\ docs[RuntimeManifest].package = Str(RuntimeName)
    /\ ~PathExists(fs, SubstrateManifest)

\* `cargo add` has exited with a nonzero status in the current add_pallet
CargoAddFailed == Adding /\ "cargo add" \in failed

\* the current add_pallet has ended without calling add_pallet_to_runtime
EndedBeforeInjection ==
    Adding /\ pc = "done" /\ result \in { "err", "panic" } /\ injection = "none"

\* C30: add_pallet runs `cargo add`, the std-feature step and the injection
\* in this order, each only after the one before has succeeded: when
\* `cargo add` exits with a nonzero status add_pallet returns an error with
\* the features of the runtime manifest and the runtime source as it found
\* them; when it ends in the std-feature step the runtime source is as it
\* found it; and the injection is reached only with the crate among the
\* manifest's dependencies and its feature in the std array.
C30_StepsInOrder ==
    /\ CargoAddFailed =>
         /\ pc = "done" /\ result = "err" /\ injection = "none"
         /\ docs[RuntimeManifest].features = docs0[RuntimeManifest].features
         /\ srcs = srcs0
    /\ EndedBeforeInjection => srcs = srcs0
    /\ (Adding /\ (pc = "add_runtime" \/ injection # "none")) =>
         /\ ran = << "cargo add" >> /\ failed = {}
         /\ HasEntry(docs[RuntimeManifest].tables["dependencies"], crate_spec)
         /\ crate_spec \o "/std" \in Range(StdOf(docs[RuntimeManifest]))

\* a second add_pallet, after one that changed the manifest and the source,
\* has ended on the nonzero exit of `cargo add`
C30_Witness ==
    /\ CargoAddFailed /\ pc = "done" /\ calls = 2 /\ injected = 1
    /\ Registrations(srcs[RuntimeLib], to_snake_case(crate_spec)) = 1
    /\ srcs = srcs0

====
